---- MODULE Spec2Model ----
(***************************************************************************)
(* Deployment lifecycle of the SESKROW deployment platform.                *)
(*                                                                         *)
(* The model follows server/routes.ts (the deploy request handler and the  *)
(* detached processDeployment pipeline) and server/storage.ts (the         *)
(* DatabaseStorage gateway).  Every `await` of the source is a separate    *)
(* step, so handlers and pipelines interleave as they do on the event      *)
(* loop.  A storage call either applies its write or throws without        *)
(* applying it.                                                            *)
(***************************************************************************)
EXTENDS Integers, Sequences, FiniteSets, TLC

VARIABLES
    applications,   \* table "applications": id -> row
    deployments,    \* table "deployments": sequence of rows, id = index (serial)
    pipelines,      \* one processDeployment activation per deployment id
    requests,       \* deploy requests: position in the handler and response
    appSeq,         \* serial of applications.id: the last id handed out
    conversations,  \* table "groq_conversations": sequence of rows
    analytics,      \* table "analytics": sequence of rows
    calls,          \* requests to the other endpoints: handler position, locals, response
    sessions,       \* express sessions: session id -> session data
    client          \* the browser: what a component or the analysis client is computing

\* what the deploy handler and the pipeline never touch
others == <<appSeq, conversations, analytics, calls, sessions, client>>

vars ==
    <<applications, deployments, pipelines, requests, appSeq, conversations, analytics, calls,
      sessions, client>>

----------------------------------------------------------------------------
(* Bounds *)

MaxRequests == 2        \* deploy requests issued in one behaviour
MaxActive == 1          \* deploy requests and pipelines in flight at one time
MaxCalls == 2           \* requests to the other endpoints issued in one behaviour
MaxOps == 1            \* requests issued in one behaviour with every endpoint in play
MaxEvents == 2          \* rows of the analytics table
MaxVisits == 3          \* rows the analytics chart receives

----------------------------------------------------------------------------
(* Values *)

\* a nullable column or variable: None (null/undefined) or Some(value)
None == <<>>
Some(x) == <<x>>
IsSome(o) == o # None
Get(o) == o[1]

Users == {"u1", "u2"}

\* browser sessions of the admin surface
Sessions == {"s1", "s2"}

\* ids a client may put in the URL: 1 and 2 exist, 3 does not
RequestedIds == {1, 2, 3}

\* error.message of a failed storage call
DbErrors == {"connection terminated"}

PlatformDomain == ".seskrow.com"

\* new Date(): the instant of the call; only its presence is observed
DateNow == "now"

----------------------------------------------------------------------------
(* Text: a line is a sequence of fragments (the pieces of a template       *)
(* literal); a text is the fragments of its lines separated by "\n".       *)

NL == "\n"

Line(s) == <<s>>

\* `Deployment failed: ${error.message}`
FailedPrefix == "Deployment failed: "

FailedLine(message) == <<FailedPrefix, message>>

InitLine == Line("Initializing deployment...")
AnalyzingLine == Line("Analyzing code with GroqAI...")
AnalysisOkLine == Line("GroqAI analysis completed successfully")
AnalysisSkippedLine == Line("GroqAI analysis skipped - using default configuration")
CompleteLine == Line("Deployment complete!")

\* the fixed stage lines, in the order the pipeline pushes them
StageLines == <<Line("Optimizing dependencies..."),
                Line("Building application..."),
                Line("Running tests..."),
                Line("Deploying to CDN..."),
                Line("Configuring subdomain...")>>

NumStages == Len(StageLines)

\* logs.join('\n')
RECURSIVE Join(_)
Join(logs) ==
    IF Len(logs) = 0 THEN <<>>
    ELSE IF Len(logs) = 1 THEN logs[1]
    ELSE logs[1] \o <<NL>> \o Join(Tail(logs))

\* the lines of a text (text.split('\n'))
RECURSIVE SplitFrom(_, _, _)
SplitFrom(text, i, cur) ==
    IF i > Len(text) THEN <<cur>>
    ELSE IF text[i] = NL THEN <<cur>> \o SplitFrom(text, i + 1, <<>>)
    ELSE SplitFrom(text, i + 1, Append(cur, text[i]))

\* lines of a nullable text column
LinesOf(column) ==
    IF IsSome(column) THEN SplitFrom(Get(column), 1, <<>>) ELSE <<>>

StartsWith(line, prefix) == Len(line) > 0 /\ line[1] = prefix

IsPrefix(s, t) == Len(s) <= Len(t) /\ SubSeq(t, 1, Len(s)) = s

\* last line of a nullable text column; the empty line when there is none
LastLine(column) ==
    LET ls == LinesOf(column) IN IF Len(ls) = 0 THEN <<>> ELSE ls[Len(ls)]

----------------------------------------------------------------------------
(* The upstream chat-completion call as the pipeline sees it: fetch either *)
(* rejects or resolves with a response whose `ok` flag, body and choice    *)
(* list decide the analysis.                                               *)

UpstreamResponses ==
    { [fetch |-> "rejects",  ok |-> FALSE, json |-> "rejects",  choices |-> None],
      [fetch |-> "resolves", ok |-> FALSE, json |-> "resolves", choices |-> None],
      [fetch |-> "resolves", ok |-> TRUE,  json |-> "rejects",  choices |-> None],
      [fetch |-> "resolves", ok |-> TRUE,  json |-> "resolves", choices |-> None],
      [fetch |-> "resolves", ok |-> TRUE,  json |-> "resolves", choices |-> Some(<<>>)],
      [fetch |-> "resolves", ok |-> TRUE,  json |-> "resolves", choices |-> Some(<<"">>)],
      [fetch |-> "resolves", ok |-> TRUE,  json |-> "resolves", choices |-> Some(<<"advice">>)] }

\* the inner try of processDeployment throws (and its catch runs)
AnalysisThrows(resp) ==
    \/ resp.fetch = "rejects"
    \/ resp.fetch = "resolves" /\ resp.ok /\ resp.json = "rejects"
    \/ resp.fetch = "resolves" /\ resp.ok /\ resp.json = "resolves" /\ resp.choices = None

\* the analysis call did not deliver an analysis: non-2xx or a throw
AnalysisFailed(resp) == AnalysisThrows(resp) \/ ~resp.ok

\* data.choices[0]?.message?.content || 'Analysis completed'
ContentOrDefault(choices) ==
    IF Len(choices) = 0 \/ choices[1] = "" THEN "Analysis completed" ELSE choices[1]

\* value of the local `analysisResult` after the analysis stage
AnalysisResultOf(resp) ==
    IF AnalysisFailed(resp) THEN "" ELSE ContentOrDefault(Get(resp.choices))

\* line the analysis stage pushes after "Analyzing code with GroqAI..."
AnalysisLineOf(resp) ==
    IF AnalysisFailed(resp) THEN AnalysisSkippedLine ELSE AnalysisOkLine

----------------------------------------------------------------------------
(* Persistence gateway *)

\* .set(updates): the columns named in updates are overwritten
Merge(row, updates) ==
    [f \in DOMAIN row |-> IF f \in DOMAIN updates THEN updates[f] ELSE row[f]]

getApplication(id) ==
    IF id \in DOMAIN applications THEN Some(applications[id]) ELSE None

\* as NewDeployment, with the status argument dropped (column default)
NewDeploymentDefaultStatus(id, applicationId, status) ==
    [id |-> id, applicationId |-> applicationId, status |-> "pending",
     buildLogs |-> None, groqAnalysis |-> None, deployedAt |-> None]

\* row inserted by createDeployment({applicationId, status}): defaults elsewhere
NewDeployment(id, applicationId, status) ==
    [id |-> id, applicationId |-> applicationId, status |-> status,
     buildLogs |-> None, groqAnalysis |-> None, deployedAt |-> None]

createDeployment(table, applicationId, status) ==
    Append(table, NewDeployment(Len(table) + 1, applicationId, status))

\* as updateDeployment, with the where-clause on the application of the row
updateDeploymentsOfApplication(table, id, updates) ==
    IF id \in DOMAIN table
    THEN [e \in DOMAIN table |->
             IF table[e].applicationId = table[id].applicationId
             THEN Merge(table[e], updates) ELSE table[e]]
    ELSE table

updateDeployment(table, id, updates) ==
    IF id \in DOMAIN table
    THEN [table EXCEPT ![id] = Merge(@, updates)]
    ELSE table

\* .set({ ...updates, updatedAt: new Date() })
updateApplication(table, id, updates) ==
    IF id \in DOMAIN table
    THEN [table EXCEPT ![id] = Merge(@, updates @@ [updatedAt |-> Some(DateNow)])]
    ELSE table

\* outcome of one storage call: it resolves, or rejects with an error message
StorageOutcomes == {"resolves"} \cup DbErrors

----------------------------------------------------------------------------
(* Initial state: two registered applications, never deployed *)

NewApplication(id, userId, name, subdomain, sourceType) ==
    [id |-> id, userId |-> userId, name |-> name, subdomain |-> subdomain,
     sourceType |-> sourceType, status |-> "pending", deploymentUrl |-> None,
     lastDeployedAt |-> None, updatedAt |-> Some(DateNow)]

\* a session before any request has written to it
NewSession == [isAdmin |-> FALSE]

\* the browser with nothing under way
IdleClient == [kind |-> "none"]

\* a request slot of the other endpoints before the request arrives
IdleCall ==
    [kind |-> "none", pc |-> "idle", user |-> None, params |-> None,
     local |-> None, error |-> None, response |-> None]

IdleRequest ==
    [pc |-> "idle", user |-> None, applicationId |-> None,
     application |-> None, response |-> None]

\* the applications registered so far
Registered ==
    (1 :> NewApplication(1, "u1", "Demo", "demo-1", "zip")) @@
    (2 :> NewApplication(2, "u2", "Blog", "blog", "github"))

Init ==
    /\ applications = Registered
    /\ deployments = <<>>
    /\ pipelines = <<>>
    /\ requests = [r \in 1..MaxRequests |-> IdleRequest]
    /\ appSeq = 2
    /\ conversations = <<>>
    /\ analytics = <<>>
    /\ calls = [c \in 1..MaxCalls |-> IdleCall]
    /\ sessions = [s \in Sessions |-> NewSession]
    /\ client = IdleClient

----------------------------------------------------------------------------
(* POST /api/applications/:id/deploy *)

Respond(req, status, body) ==
    [req EXCEPT !.pc = "responded", !.response = Some([status |-> status, body |-> body])]

\* processDeployment up to its first await: `logs` holds the first line and
\* the first updateDeployment is in flight
StartPipeline(deploymentId, application) ==
    [deploymentId |-> deploymentId, application |-> application,
     pc |-> "init_write", logs |-> <<InitLine>>, groqResponse |-> None,
     analysisResult |-> "", timer |-> 0, error |-> None]

\* the promise of a processDeployment activation has settled
Settled(p) == p.pc \in {"done", "rejected"}

\* handlers between their awaits and pipelines that have not settled
Active ==
    Cardinality({r \in DOMAIN requests : requests[r].pc = "checked"}) +
    Cardinality({d \in DOMAIN pipelines : pipelines[d].pc \notin {"done", "rejected"}})

\* the handler up to the ownership check
DeployLookup(r, user, id) ==
    /\ requests[r].pc = "idle"
    /\ Active < MaxActive
    /\ \A q \in 1..r - 1 : requests[q].pc # "idle"
    /\ \E outcome \in StorageOutcomes :
          LET req == [requests[r] EXCEPT !.user = Some(user), !.applicationId = Some(id)]
              application == getApplication(id)
          IN  requests' = [requests EXCEPT ![r] =
                  IF outcome # "resolves"
                  THEN Respond(req, 500, "Failed to start deployment")
                  ELSE IF application = None
                  THEN Respond(req, 404, "Application not found")
                  ELSE IF Get(application).userId # user
                  THEN Respond(req, 403, "Access denied")
                  ELSE [req EXCEPT !.pc = "checked", !.application = application]]
    /\ UNCHANGED <<applications, deployments, pipelines>>
    /\ UNCHANGED others

\* as DeployCreate, with the application marked 'building' as the pipeline starts
DeployCreateMarksBuilding(r) ==
    /\ requests[r].pc = "checked"
    /\ \E outcome \in StorageOutcomes :
          LET applicationId == Get(requests[r].applicationId)
              inserted == outcome = "resolves" /\ applicationId \in DOMAIN applications
              table == createDeployment(deployments, applicationId, "building")
              deployment == table[Len(table)]
          IN  IF inserted
              THEN /\ deployments' = table
                   /\ pipelines' = Append(pipelines,
                          StartPipeline(deployment.id, Get(requests[r].application)))
                   /\ requests' = [requests EXCEPT ![r] = Respond(@, 201, deployment)]
                   /\ applications' = updateApplication(applications, applicationId,
                                           [status |-> "building"])
              ELSE /\ requests' = [requests EXCEPT ![r] =
                          Respond(@, 500, "Failed to start deployment")]
                   /\ UNCHANGED <<applications, deployments, pipelines>>
    /\ UNCHANGED others

\* createDeployment, the start of the detached pipeline, and the response
DeployCreate(r) ==
    /\ requests[r].pc = "checked"
    /\ \E outcome \in StorageOutcomes :
          LET applicationId == Get(requests[r].applicationId)
              inserted == outcome = "resolves" /\ applicationId \in DOMAIN applications
              table == createDeployment(deployments, applicationId, "building")
              deployment == table[Len(table)]
          IN  IF inserted
              THEN /\ deployments' = table
                   /\ pipelines' = Append(pipelines,
                          StartPipeline(deployment.id, Get(requests[r].application)))
                   /\ requests' = [requests EXCEPT ![r] = Respond(@, 201, deployment)]
              ELSE /\ requests' = [requests EXCEPT ![r] =
                          Respond(@, 500, "Failed to start deployment")]
                   /\ UNCHANGED <<deployments, pipelines>>
    /\ UNCHANGED <<applications>>
    /\ UNCHANGED others

----------------------------------------------------------------------------
(* processDeployment *)

\* as CatchLogs, starting the log over in the handler
CatchLogsReset(logs, message) == <<FailedLine(message)>>

\* catch (error) { logs.push(`Deployment failed: ${error.message}`) ...
CatchLogs(logs, message) == Append(logs, FailedLine(message))

\* control enters the outer catch block with the error thrown at step p.pc
Catch(p, message) ==
    [p EXCEPT !.pc = "catch_write",
              !.logs = CatchLogs(@, message),
              !.error = Some([message |-> message, at |-> p.pc])]

\* as AfterAnalysis, without the inner try/catch: a throw of the call
\* reaches the outer catch block
AfterAnalysisUncaught(p, resp) ==
    IF AnalysisThrows(resp)
    THEN Catch(p, "fetch failed")
    ELSE [p EXCEPT !.pc = "analysis_write",
                   !.groqResponse = None,
                   !.logs = Append(@, AnalysisLineOf(resp)),
                   !.analysisResult = AnalysisResultOf(resp)]

\* as AfterAnalysis, with a non-2xx response thrown past the inner try
AfterAnalysisNotOkThrows(p, resp) ==
    IF resp.fetch = "resolves" /\ ~resp.ok
    THEN Catch(p, "GroqAI API error")
    ELSE [p EXCEPT !.pc = "analysis_write",
                   !.groqResponse = None,
                   !.logs = Append(@, AnalysisLineOf(resp)),
                   !.analysisResult = AnalysisResultOf(resp)]

\* the analysis stage ends: its own try/catch absorbs every failure of the
\* call, the `groqResponse` binding goes out of scope, and the next
\* updateDeployment is in flight
AfterAnalysis(p, resp) ==
    [p EXCEPT !.pc = "analysis_write",
              !.groqResponse = None,
              !.logs = Append(@, AnalysisLineOf(resp)),
              !.analysisResult = AnalysisResultOf(resp)]

\* as DeploymentUrl, built from the application's name
DeploymentUrlFromName(application) == <<"https://", application.name, PlatformDomain>>

\* `https://${application.subdomain}.seskrow.com`
DeploymentUrl(application) == <<"https://", application.subdomain, PlatformDomain>>

InitUpdates(p) == [buildLogs |-> Some(Join(p.logs))]

AnalysisUpdates(p) ==
    [buildLogs |-> Some(Join(p.logs)),
     groqAnalysis |-> Some([analysis |-> p.analysisResult])]

SuccessUpdates(p) ==
    [status |-> "success", deployedAt |-> Some(DateNow), buildLogs |-> Some(Join(p.logs))]

LiveUpdates(p) ==
    [status |-> "live", lastDeployedAt |-> Some(DateNow),
     deploymentUrl |-> Some(DeploymentUrl(p.application))]

\* as FailedUpdates, without the log text
FailedUpdatesStatusOnly(p) == [status |-> "failed"]

FailedUpdates(p) == [status |-> "failed", buildLogs |-> Some(Join(p.logs))]

FailedAppUpdates == [status |-> "failed"]

\* step 1: the first updateDeployment settles
InitWrite(d) ==
    /\ d \in DOMAIN pipelines
    /\ pipelines[d].pc = "init_write"
    /\ \E outcome \in StorageOutcomes :
          IF outcome = "resolves"
          THEN /\ deployments' = updateDeployment(deployments, d, InitUpdates(pipelines[d]))
               /\ pipelines' = [pipelines EXCEPT ![d].pc = "fetch",
                                                 ![d].logs = Append(@, AnalyzingLine)]
          ELSE /\ pipelines' = [pipelines EXCEPT ![d] = Catch(@, outcome)]
               /\ UNCHANGED deployments
    /\ UNCHANGED <<applications, requests>>
    /\ UNCHANGED others

\* step 2: fetch settles; a response with `ok` set goes on to read its body
Fetch(d) ==
    /\ d \in DOMAIN pipelines
    /\ pipelines[d].pc = "fetch"
    /\ \E resp \in UpstreamResponses :
          pipelines' = [pipelines EXCEPT ![d] =
              IF resp.fetch = "resolves" /\ resp.ok
              THEN [@ EXCEPT !.pc = "json", !.groqResponse = Some(resp)]
              ELSE AfterAnalysis(@, resp)]
    /\ UNCHANGED <<applications, deployments, requests>>
    /\ UNCHANGED others

\* step 2, continued: groqResponse.json() settles
Json(d) ==
    /\ d \in DOMAIN pipelines
    /\ pipelines[d].pc = "json"
    /\ pipelines' = [pipelines EXCEPT ![d] = AfterAnalysis(@, Get(pipelines[d].groqResponse))]
    /\ UNCHANGED <<applications, deployments, requests>>
    /\ UNCHANGED others

\* the updateDeployment after the analysis stage settles
AnalysisWrite(d) ==
    /\ d \in DOMAIN pipelines
    /\ pipelines[d].pc = "analysis_write"
    /\ \E outcome \in StorageOutcomes :
          IF outcome = "resolves"
          THEN /\ deployments' = updateDeployment(deployments, d, AnalysisUpdates(pipelines[d]))
               /\ pipelines' = [pipelines EXCEPT ![d].pc = "timer",
                                                 ![d].timer = 1,
                                                 ![d].logs = Append(@, StageLines[1])]
          ELSE /\ pipelines' = [pipelines EXCEPT ![d] = Catch(@, outcome)]
               /\ UNCHANGED deployments
    /\ UNCHANGED <<applications, requests>>
    /\ UNCHANGED others

\* step 3: a stage delay elapses and the next line is pushed
Timer(d) ==
    /\ d \in DOMAIN pipelines
    /\ pipelines[d].pc = "timer"
    /\ pipelines' = [pipelines EXCEPT ![d] =
          IF @.timer < NumStages
          THEN [@ EXCEPT !.timer = @ + 1, !.logs = Append(@, StageLines[pipelines[d].timer + 1])]
          ELSE [@ EXCEPT !.timer = 0, !.pc = "success_write", !.logs = Append(@, CompleteLine)]]
    /\ UNCHANGED <<applications, deployments, requests>>
    /\ UNCHANGED others

\* as SuccessWrite, with the application update in the same write
SuccessWriteAtomic(d) ==
    /\ d \in DOMAIN pipelines
    /\ pipelines[d].pc = "success_write"
    /\ \E outcome \in StorageOutcomes :
          IF outcome = "resolves"
          THEN /\ deployments' = updateDeployment(deployments, d, SuccessUpdates(pipelines[d]))
               /\ applications' = updateApplication(applications, pipelines[d].application.id,
                                       LiveUpdates(pipelines[d]))
               /\ pipelines' = [pipelines EXCEPT ![d].pc = "done"]
          ELSE /\ pipelines' = [pipelines EXCEPT ![d] = Catch(@, outcome)]
               /\ UNCHANGED <<applications, deployments>>
    /\ UNCHANGED requests
    /\ UNCHANGED others

\* step 4: the success updateDeployment settles
SuccessWrite(d) ==
    /\ d \in DOMAIN pipelines
    /\ pipelines[d].pc = "success_write"
    /\ \E outcome \in StorageOutcomes :
          IF outcome = "resolves"
          THEN /\ deployments' = updateDeployment(deployments, d, SuccessUpdates(pipelines[d]))
               /\ pipelines' = [pipelines EXCEPT ![d].pc = "app_write"]
          ELSE /\ pipelines' = [pipelines EXCEPT ![d] = Catch(@, outcome)]
               /\ UNCHANGED deployments
    /\ UNCHANGED <<applications, requests>>
    /\ UNCHANGED others

\* as AppWrite, writing the application only for its newest deployment
AppWriteIfNewest(d) ==
    /\ d \in DOMAIN pipelines
    /\ pipelines[d].pc = "app_write"
    /\ \E outcome \in StorageOutcomes :
          IF outcome = "resolves"
          THEN /\ applications' =
                      IF \E e \in DOMAIN deployments :
                             e > d /\ deployments[e].applicationId = deployments[d].applicationId
                      THEN applications
                      ELSE updateApplication(applications, pipelines[d].application.id,
                                             LiveUpdates(pipelines[d]))
               /\ pipelines' = [pipelines EXCEPT ![d].pc = "done"]
          ELSE /\ pipelines' = [pipelines EXCEPT ![d] = Catch(@, outcome)]
               /\ UNCHANGED applications
    /\ UNCHANGED <<deployments, requests>>
    /\ UNCHANGED others

\* step 5: the updateApplication to "live" settles
AppWrite(d) ==
    /\ d \in DOMAIN pipelines
    /\ pipelines[d].pc = "app_write"
    /\ \E outcome \in StorageOutcomes :
          IF outcome = "resolves"
          THEN /\ applications' = updateApplication(applications, pipelines[d].application.id,
                                       LiveUpdates(pipelines[d]))
               /\ pipelines' = [pipelines EXCEPT ![d].pc = "done"]
          ELSE /\ pipelines' = [pipelines EXCEPT ![d] = Catch(@, outcome)]
               /\ UNCHANGED applications
    /\ UNCHANGED <<deployments, requests>>
    /\ UNCHANGED others

\* the failure handler's updateDeployment settles; its rejection is unhandled
CatchWrite(d) ==
    /\ d \in DOMAIN pipelines
    /\ pipelines[d].pc = "catch_write"
    /\ \E outcome \in StorageOutcomes :
          IF outcome = "resolves"
          THEN /\ deployments' = updateDeployment(deployments, d, FailedUpdates(pipelines[d]))
               /\ pipelines' = [pipelines EXCEPT ![d].pc = "catch_app_write"]
          ELSE /\ pipelines' = [pipelines EXCEPT ![d].pc = "rejected"]
               /\ UNCHANGED deployments
    /\ UNCHANGED <<applications, requests>>
    /\ UNCHANGED others

\* the failure handler's updateApplication settles; its rejection is unhandled
CatchAppWrite(d) ==
    /\ d \in DOMAIN pipelines
    /\ pipelines[d].pc = "catch_app_write"
    /\ \E outcome \in StorageOutcomes :
          IF outcome = "resolves"
          THEN /\ applications' = updateApplication(applications, pipelines[d].application.id,
                                       FailedAppUpdates)
               /\ pipelines' = [pipelines EXCEPT ![d].pc = "done"]
          ELSE /\ pipelines' = [pipelines EXCEPT ![d].pc = "rejected"]
               /\ UNCHANGED applications
    /\ UNCHANGED <<deployments, requests>>
    /\ UNCHANGED others

----------------------------------------------------------------------------

Next ==
    \/ \E r \in 1..MaxRequests, user \in Users, id \in RequestedIds : DeployLookup(r, user, id)
    \/ \E r \in 1..MaxRequests : DeployCreate(r)
    \/ \E d \in 1..MaxRequests : InitWrite(d)
    \/ \E d \in 1..MaxRequests : Fetch(d)
    \/ \E d \in 1..MaxRequests : Json(d)
    \/ \E d \in 1..MaxRequests : AnalysisWrite(d)
    \/ \E d \in 1..MaxRequests : Timer(d)
    \/ \E d \in 1..MaxRequests : SuccessWrite(d)
    \/ \E d \in 1..MaxRequests : AppWrite(d)
    \/ \E d \in 1..MaxRequests : CatchWrite(d)
    \/ \E d \in 1..MaxRequests : CatchAppWrite(d)

Spec == Init /\ [][Next]_vars

----------------------------------------------------------------------------
(* Users: u1 is on the free tier, u2 is premium *)

UsersTable ==
    [id \in Users |-> [id |-> id, isPremium |-> (id = "u2")]]

getUser(id) == IF id \in DOMAIN UsersTable THEN Some(UsersTable[id]) ELSE None

\* rows of the user, as getUserApplications selects them
getUserApplications(userId) ==
    {a \in DOMAIN applications : applications[a].userId = userId}

checkSubdomainAvailable(subdomain) ==
    ~\E a \in DOMAIN applications : applications[a].subdomain = subdomain

\* as SubdomainUnique, without the unique index on applications.subdomain
NoSubdomainIndex(table, subdomain) == TRUE

\* the unique index on applications.subdomain admits the new row
SubdomainUnique(table, subdomain) ==
    ~\E a \in DOMAIN table : table[a].subdomain = subdomain

\* a row of deployments or analytics references the application
Referenced(id) ==
    \/ \E d \in DOMAIN deployments : deployments[d].applicationId = id
    \/ \E e \in DOMAIN analytics : analytics[e].applicationId = id

deleteApplication(table, id) == [a \in DOMAIN table \ {id} |-> table[a]]

----------------------------------------------------------------------------
(* Requests to the other endpoints share the slots of `calls`; the slots   *)
(* are used in order.                                                      *)

SlotFree(c) ==
    /\ calls[c].pc = "idle"
    /\ \A q \in 1..c - 1 : calls[q].pc # "idle"

StartCall(kind, user, params) ==
    [IdleCall EXCEPT !.kind = kind, !.pc = "started", !.user = user, !.params = Some(params)]

\* the slot after a step of its handler
Proceed(call, pc, local) == [call EXCEPT !.pc = pc, !.local = Some(local)]

\* errors the database raises on a constraint
UniqueViolation == "duplicate key value violates unique constraint"
ForeignKeyViolation == "violates foreign key constraint"

\* the handler's catch block: console.error(..., error) and the 500 answer
Caught(call, error, message) ==
    [Respond(call, 500, message) EXCEPT !.error = Some(error)]

----------------------------------------------------------------------------
(* POST /api/applications *)

\* request bodies: complete, complete for a subdomain in use, without a
\* name, and complete with an owner, a status and a URL of the client's choice
ApplicationBodies ==
    { [name |-> Some("Shop"), subdomain |-> Some("shop"), sourceType |-> Some("zip"),
       userId |-> None, status |-> None, deploymentUrl |-> None],
      [name |-> Some("Blog"), subdomain |-> Some("blog"), sourceType |-> Some("github"),
       userId |-> None, status |-> None, deploymentUrl |-> None],
      [name |-> None, subdomain |-> Some("shop"), sourceType |-> Some("zip"),
       userId |-> None, status |-> None, deploymentUrl |-> None],
      [name |-> Some("Store"), subdomain |-> Some("store"), sourceType |-> Some("zip"),
       userId |-> Some("u2"), status |-> Some("live"),
       deploymentUrl |-> Some(<<"https://", "store", PlatformDomain>>)] }

\* as WithUserId, with the spread last: an owner the body names wins
WithUserIdFirst(body, userId) ==
    IF IsSome(body.userId) THEN body ELSE [body EXCEPT !.userId = Some(userId)]

\* { ...req.body, userId }
WithUserId(body, userId) == [body EXCEPT !.userId = Some(userId)]

\* insertApplicationSchema.safeParse succeeds: the notNull columns without
\* a default are present
ValidApplication(data) ==
    IsSome(data.userId) /\ IsSome(data.name) /\ IsSome(data.subdomain) /\ IsSome(data.sourceType)

\* row the insert of validation.data produces: column defaults where absent
InsertedApplication(id, data) ==
    Merge(NewApplication(id, Get(data.userId), Get(data.name), Get(data.subdomain),
                         Get(data.sourceType)),
          (IF IsSome(data.status) THEN [status |-> Get(data.status)] ELSE <<>>) @@
          (IF IsSome(data.deploymentUrl) THEN [deploymentUrl |-> data.deploymentUrl] ELSE <<>>))

\* as OverQuota, counting only from the second application on
OverQuotaOffByOne(user, userApps) ==
    (user = None \/ ~Get(user).isPremium) /\ Cardinality(userApps) > 1

\* !user?.isPremium && userApps.length >= 1
OverQuota(user, userApps) ==
    (user = None \/ ~Get(user).isPremium) /\ Cardinality(userApps) >= 1

\* the request arrives and getUser settles
CreateGetUser(c, user, body) ==
    /\ SlotFree(c)
    /\ \E outcome \in StorageOutcomes :
          LET call == StartCall("create", Some(user), body)
          IN  calls' = [calls EXCEPT ![c] =
                  IF outcome # "resolves"
                  THEN Caught(call, outcome, "Failed to create application")
                  ELSE Proceed(call, "got_user", [user |-> getUser(user)])]
    /\ UNCHANGED <<applications, deployments, pipelines, requests, appSeq, conversations,
                   analytics, sessions, client>>

\* getUserApplications settles; the quota check and the validation follow
CreateCount(c) ==
    /\ calls[c].kind = "create" /\ calls[c].pc = "got_user"
    /\ \E outcome \in StorageOutcomes :
          LET call == calls[c]
              userId == Get(call.user)
              userApps == getUserApplications(userId)
              data == WithUserId(Get(call.params), userId)
          IN  calls' = [calls EXCEPT ![c] =
                  IF outcome # "resolves"
                  THEN Caught(call, outcome, "Failed to create application")
                  ELSE IF OverQuota(Get(call.local).user, userApps)
                  THEN Respond(call, 403, "Free tier limited to 1 application. Upgrade to premium for unlimited apps.")
                  ELSE IF ~ValidApplication(data)
                  THEN Respond(call, 400, "Validation error: Required at \"name\"")
                  ELSE Proceed(call, "validated", [data |-> data])]
    /\ UNCHANGED <<applications, deployments, pipelines, requests, appSeq, conversations,
                   analytics, sessions, client>>

\* checkSubdomainAvailable settles
CreateCheck(c) ==
    /\ calls[c].kind = "create" /\ calls[c].pc = "validated"
    /\ \E outcome \in StorageOutcomes :
          LET call == calls[c]
              data == Get(call.local).data
          IN  calls' = [calls EXCEPT ![c] =
                  IF outcome # "resolves"
                  THEN Caught(call, outcome, "Failed to create application")
                  ELSE IF ~checkSubdomainAvailable(Get(data.subdomain))
                  THEN Respond(call, 400, "Subdomain already taken")
                  ELSE [call EXCEPT !.pc = "available"]]
    /\ UNCHANGED <<applications, deployments, pipelines, requests, appSeq, conversations,
                   analytics, sessions, client>>

\* createApplication settles: the insert takes the next serial id, and the
\* unique index on subdomain rejects a duplicate
CreateInsert(c) ==
    /\ calls[c].kind = "create" /\ calls[c].pc = "available"
    /\ \E outcome \in StorageOutcomes :
          LET call == calls[c]
              data == Get(call.local).data
              id == appSeq + 1
              row == InsertedApplication(id, data)
          IN  IF outcome # "resolves"
              THEN /\ calls' = [calls EXCEPT ![c] =
                          Caught(call, outcome, "Failed to create application")]
                   /\ UNCHANGED <<applications, appSeq, client>>
              ELSE IF ~SubdomainUnique(applications, row.subdomain)
              THEN /\ calls' = [calls EXCEPT ![c] =
                          Caught(call, UniqueViolation, "Failed to create application")]
                   /\ appSeq' = id
                   /\ UNCHANGED applications
              ELSE /\ applications' = (id :> row) @@ applications
                   /\ appSeq' = id
                   /\ calls' = [calls EXCEPT ![c] = Respond(call, 201, row)]
    /\ UNCHANGED <<deployments, pipelines, requests, conversations, analytics, sessions, client>>

----------------------------------------------------------------------------
(* DELETE /api/applications/:id *)

\* as AccessCheck, without the comparison of the owner with the caller
AccessCheckExistenceOnly(call, id, user) ==
    LET application == getApplication(id)
    IN  IF application = None
        THEN Respond(call, 404, "Application not found")
        ELSE Proceed(call, "checked", [application |-> Get(application)])

\* the checks shared by the application-scoped handlers, after
\* getApplication has resolved: existence first, then ownership
AccessCheck(call, id, user) ==
    LET application == getApplication(id)
    IN  IF application = None
        THEN Respond(call, 404, "Application not found")
        ELSE IF Get(application).userId # user
        THEN Respond(call, 403, "Access denied")
        ELSE Proceed(call, "checked", [application |-> Get(application)])

DeleteLookup(c, user, id) ==
    /\ SlotFree(c)
    /\ \E outcome \in StorageOutcomes :
          LET call == StartCall("delete", Some(user), [id |-> id])
          IN  calls' = [calls EXCEPT ![c] =
                  IF outcome # "resolves"
                  THEN Caught(call, outcome, "Failed to delete application")
                  ELSE AccessCheck(call, id, user)]
    /\ UNCHANGED <<applications, deployments, pipelines, requests, appSeq, conversations,
                   analytics, sessions, client>>

\* deleteApplication settles; a referenced row cannot be deleted
DeleteApply(c) ==
    /\ calls[c].kind = "delete" /\ calls[c].pc = "checked"
    /\ \E outcome \in StorageOutcomes :
          LET call == calls[c]
              id == Get(call.params).id
          IN  IF outcome = "resolves" /\ ~Referenced(id)
              THEN /\ applications' = deleteApplication(applications, id)
                   /\ calls' = [calls EXCEPT ![c] = Respond(call, 204, "")]
              ELSE /\ calls' = [calls EXCEPT ![c] =
                          Caught(call, IF outcome = "resolves" THEN ForeignKeyViolation ELSE outcome,
                                 "Failed to delete application")]
                   /\ UNCHANGED applications
    /\ UNCHANGED <<deployments, pipelines, requests, appSeq, conversations, analytics, sessions, client>>

----------------------------------------------------------------------------
(* GET /api/applications/:id/analytics *)

\* the day of the request; timestamps of analytics rows are days
Today == 40

DigitValue ==
    ("0" :> 0) @@ ("1" :> 1) @@ ("2" :> 2) @@ ("3" :> 3) @@ ("4" :> 4) @@
    ("5" :> 5) @@ ("6" :> 6) @@ ("7" :> 7) @@ ("8" :> 8) @@ ("9" :> 9)

\* value of the longest prefix of digits, after the digits read so far
RECURSIVE LeadingDigits(_, _)
LeadingDigits(chars, read) ==
    IF chars = <<>> \/ Head(chars) \notin DOMAIN DigitValue
    THEN read
    ELSE LeadingDigits(Tail(chars),
                       Some((IF read = None THEN 0 ELSE Get(read)) * 10 + DigitValue[Head(chars)]))

\* parseInt of a string (its characters), None for NaN: an optional sign,
\* then the longest prefix of digits
ParseInt(chars) ==
    LET signed == chars # <<>> /\ Head(chars) \in {"-", "+"}
        digits == LeadingDigits(IF signed THEN Tail(chars) ELSE chars, None)
    IN  IF digits = None THEN None
        ELSE IF signed /\ Head(chars) = "-" THEN Some(0 - Get(digits))
        ELSE digits

\* parseInt(req.query.days as string) || 30
DaysOf(query) ==
    LET n == IF IsSome(query) THEN ParseInt(Get(query)) ELSE None
    IN  IF n = None \/ Get(n) = 0 THEN 30 ELSE Get(n)

\* req.query.days: absent, "7", "0", "-5", "abc"
RequestedDays ==
    {None, Some(<<"7">>), Some(<<"0">>), Some(<<"-", "5">>), Some(<<"a", "b", "c">>)}

RECURSIVE InsertDesc(_, _)
InsertDesc(row, sorted) ==
    IF sorted = <<>> THEN <<row>>
    ELSE IF row.visitedAt > Head(sorted).visitedAt THEN <<row>> \o sorted
    ELSE <<Head(sorted)>> \o InsertDesc(row, Tail(sorted))

\* orderBy(desc(analytics.visitedAt))
RECURSIVE OrderByVisitedAtDesc(_)
OrderByVisitedAtDesc(rows) ==
    IF rows = <<>> THEN <<>>
    ELSE InsertDesc(Head(rows), OrderByVisitedAtDesc(Tail(rows)))

\* rows of the application, newest first; `daysAgo` is computed and takes
\* no part in the query
getApplicationAnalytics(applicationId, days) ==
    LET daysAgo == Today - days
        OfApplication(row) == row.applicationId = applicationId
    IN  OrderByVisitedAtDesc(SelectSeq(analytics, OfApplication))

AnalyticsLookup(c, user, id, days) ==
    /\ SlotFree(c)
    /\ \E outcome \in StorageOutcomes :
          LET call == StartCall("analytics", Some(user), [id |-> id, days |-> days])
          IN  calls' = [calls EXCEPT ![c] =
                  IF outcome # "resolves"
                  THEN Caught(call, outcome, "Failed to fetch analytics")
                  ELSE AccessCheck(call, id, user)]
    /\ UNCHANGED <<applications, deployments, pipelines, requests, appSeq, conversations,
                   analytics, sessions, client>>

AnalyticsRead(c) ==
    /\ calls[c].kind = "analytics" /\ calls[c].pc = "checked"
    /\ \E outcome \in StorageOutcomes :
          LET call == calls[c]
              params == Get(call.params)
          IN  calls' = [calls EXCEPT ![c] =
                  IF outcome # "resolves"
                  THEN Caught(call, outcome, "Failed to fetch analytics")
                  ELSE Respond(call, 200, getApplicationAnalytics(params.id, DaysOf(params.days)))]
    /\ UNCHANGED <<applications, deployments, pipelines, requests, appSeq, conversations,
                   analytics, sessions, client>>

----------------------------------------------------------------------------
(* POST /api/groq/chat and POST /api/groq/public-chat *)

\* JSON values of a request body
Str(v) == [type |-> "string", value |-> v]
Num(v) == [type |-> "number", value |-> v]

IsString(field) == IsSome(field) /\ Get(field).type = "string"

\* request bodies: what the chat widget sends, a message alone, an empty
\* message, no message, and a message that is not text
ChatBodies ==
    { [message |-> Some(Str("hi")), response |-> Some(Str(""))],
      [message |-> Some(Str("hi")), response |-> None],
      [message |-> Some(Str("")),   response |-> Some(Str(""))],
      [message |-> None,            response |-> Some(Str(""))],
      [message |-> Some(Num("42")), response |-> Some(Str(""))] }

ChatFallback == "Sorry, I could not generate a response."
ChatApology ==
    "I apologize, but I'm having trouble connecting to the AI service right now. Please try again in a moment, or contact support if the issue persists."
PublicFallback == "I apologize, but I cannot provide a response at the moment."
PublicNotOk ==
    "I'm having trouble connecting right now. Please try again or contact our support team for assistance."
PublicUnavailable ==
    "I'm currently unavailable. Please try again later or contact our support team for help."

\* data.choices[0]?.message?.content || fallback
ContentOr(choices, fallback) ==
    IF Len(choices) = 0 \/ choices[1] = "" THEN fallback ELSE choices[1]

\* insertGroqConversationSchema.safeParse succeeds: message and response
\* are notNull text columns without a default
ValidConversation(body) == IsString(body.message) /\ IsString(body.response)

\* as MessageMissing, with the type test alone
MessageNotText(body) == ~IsString(body.message)

\* !message || typeof message !== 'string'
MessageMissing(body) == ~IsString(body.message) \/ Get(body.message).value = ""

\* as ChatText, with the upstream content passed on as it is
ChatTextUnguarded(resp) ==
    IF resp.json = "rejects" \/ resp.choices = None THEN ChatApology
    ELSE IF Len(Get(resp.choices)) = 0 THEN ChatFallback
    ELSE Get(resp.choices)[1]

\* value of `response` after groqResponse.json() has settled
ChatText(resp) ==
    IF resp.json = "rejects" \/ resp.choices = None THEN ChatApology
    ELSE ContentOr(Get(resp.choices), ChatFallback)

PublicText(resp) ==
    IF resp.json = "rejects" \/ resp.choices = None THEN PublicUnavailable
    ELSE ContentOr(Get(resp.choices), PublicFallback)

\* row inserted by createConversation({...validation.data, response})
NewConversation(id, data, response) ==
    [id |-> id, userId |-> data.userId, message |-> data.message, response |-> response]

\* as ChatArrive, with the conversation stored before the upstream call
ChatArriveStoresFirst(c, user, body) ==
    /\ SlotFree(c)
    /\ LET call == StartCall("chat", Some(user), body)
           data == [userId |-> user, message |-> Get(body.message).value]
       IN  IF ~ValidConversation(body)
           THEN /\ calls' = [calls EXCEPT ![c] =
                       Respond(call, 400, "Validation error: Required")]
                /\ UNCHANGED conversations
           ELSE /\ calls' = [calls EXCEPT ![c] = Proceed(call, "fetch", [data |-> data])]
                /\ conversations' = Append(conversations,
                       NewConversation(Len(conversations) + 1, data, ""))
    /\ UNCHANGED <<applications, deployments, pipelines, requests, appSeq, analytics, sessions, client>>

\* the request arrives: validation, then the upstream call is in flight
ChatArrive(c, user, body) ==
    /\ SlotFree(c)
    /\ LET call == StartCall("chat", Some(user), body)
       IN  calls' = [calls EXCEPT ![c] =
               IF ~ValidConversation(body)
               THEN Respond(call, 400, "Validation error: Required")
               ELSE Proceed(call, "fetch",
                            [data |-> [userId |-> user, message |-> Get(body.message).value]])]
    /\ UNCHANGED <<applications, deployments, pipelines, requests, appSeq, conversations,
                   analytics, sessions, client>>

\* fetch settles; a rejection and a non-2xx status end in the inner catch
ChatFetch(c) ==
    /\ calls[c].kind = "chat" /\ calls[c].pc = "fetch"
    /\ \E resp \in UpstreamResponses :
          LET local == Get(calls[c].local)
          IN  calls' = [calls EXCEPT ![c] =
                  IF resp.fetch = "resolves" /\ resp.ok
                  THEN Proceed(@, "json", [data |-> local.data, groqResponse |-> resp])
                  ELSE Proceed(@, "create", [data |-> local.data, response |-> ChatApology])]
    /\ UNCHANGED <<applications, deployments, pipelines, requests, appSeq, conversations,
                   analytics, sessions, client>>

\* groqResponse.json() settles
ChatJson(c) ==
    /\ calls[c].kind = "chat" /\ calls[c].pc = "json"
    /\ LET local == Get(calls[c].local)
       IN  calls' = [calls EXCEPT ![c] =
               Proceed(@, "create", [data |-> local.data, response |-> ChatText(local.groqResponse)])]
    /\ UNCHANGED <<applications, deployments, pipelines, requests, appSeq, conversations,
                   analytics, sessions, client>>

\* createConversation settles
ChatCreate(c) ==
    /\ calls[c].kind = "chat" /\ calls[c].pc = "create"
    /\ \E outcome \in StorageOutcomes :
          LET local == Get(calls[c].local)
              conversation == NewConversation(Len(conversations) + 1, local.data, local.response)
          IN  IF outcome = "resolves"
              THEN /\ conversations' = Append(conversations, conversation)
                   /\ calls' = [calls EXCEPT ![c] = Respond(@, 201, conversation)]
              ELSE /\ calls' = [calls EXCEPT ![c] =
                          Caught(@, outcome, "Failed to process chat message")]
                   /\ UNCHANGED conversations
    /\ UNCHANGED <<applications, deployments, pipelines, requests, appSeq, analytics, sessions, client>>

PublicArrive(c, body) ==
    /\ SlotFree(c)
    /\ LET call == StartCall("public-chat", None, body)
       IN  calls' = [calls EXCEPT ![c] =
               IF MessageMissing(body)
               THEN Respond(call, 400, "Message is required")
               ELSE [call EXCEPT !.pc = "fetch"]]
    /\ UNCHANGED <<applications, deployments, pipelines, requests, appSeq, conversations,
                   analytics, sessions, client>>

PublicFetch(c) ==
    /\ calls[c].kind = "public-chat" /\ calls[c].pc = "fetch"
    /\ \E resp \in UpstreamResponses :
          calls' = [calls EXCEPT ![c] =
              IF resp.fetch = "rejects"
              THEN Respond(@, 200, [response |-> PublicUnavailable])
              ELSE IF ~resp.ok
              THEN Respond(@, 200, [response |-> PublicNotOk])
              ELSE Proceed(@, "json", [groqResponse |-> resp])]
    /\ UNCHANGED <<applications, deployments, pipelines, requests, appSeq, conversations,
                   analytics, sessions, client>>

PublicJson(c) ==
    /\ calls[c].kind = "public-chat" /\ calls[c].pc = "json"
    /\ calls' = [calls EXCEPT ![c] =
           Respond(@, 200, [response |-> PublicText(Get(calls[c].local).groqResponse)])]
    /\ UNCHANGED <<applications, deployments, pipelines, requests, appSeq, conversations,
                   analytics, sessions, client>>

ChatNext ==
    \/ \E c \in 1..MaxCalls, user \in Users, body \in ChatBodies : ChatArrive(c, user, body)
    \/ \E c \in 1..MaxCalls : ChatFetch(c)
    \/ \E c \in 1..MaxCalls : ChatJson(c)
    \/ \E c \in 1..MaxCalls : ChatCreate(c)
    \/ \E c \in 1..MaxCalls, body \in ChatBodies : PublicArrive(c, body)
    \/ \E c \in 1..MaxCalls : PublicFetch(c)
    \/ \E c \in 1..MaxCalls : PublicJson(c)

ChatSpec == Init /\ [][ChatNext]_vars

----------------------------------------------------------------------------
(* POST /api/track/:subdomain *)

\* subdomains a deployed page may report: in use, and not
TrackedSubdomains == {"blog", "nowhere"}

\* apps.find(app => app.subdomain === subdomain) over the applications of
\* the user whose id is ""
FindTracked(subdomain) ==
    {a \in getUserApplications("") : applications[a].subdomain = subdomain}

\* row inserted by recordAnalytics
NewEvent(applicationId) ==
    [applicationId |-> applicationId, path |-> "/", referer |-> "",
     country |-> "Unknown", city |-> "Unknown", visitedAt |-> Today]

\* getUserApplications("") settles and the application is looked for
TrackLookup(c, subdomain) ==
    /\ SlotFree(c)
    /\ \E outcome \in StorageOutcomes :
          LET call == StartCall("track", None, [subdomain |-> subdomain])
              found == FindTracked(subdomain)
          IN  calls' = [calls EXCEPT ![c] =
                  IF outcome # "resolves"
                  THEN Caught(call, outcome, "Failed to track analytics")
                  ELSE IF found = {}
                  THEN Respond(call, 404, "Application not found")
                  ELSE Proceed(call, "record", [application |-> applications[CHOOSE a \in found : TRUE]])]
    /\ UNCHANGED <<applications, deployments, pipelines, requests, appSeq, conversations,
                   analytics, sessions, client>>

\* recordAnalytics settles; no state enables this step, the lookup above
\* selecting no row
TrackRecord(c) ==
    /\ calls[c].kind = "track" /\ calls[c].pc = "record"
    /\ \E outcome \in StorageOutcomes :
          IF outcome = "resolves"
          THEN /\ analytics' = Append(analytics, NewEvent(Get(calls[c].local).application.id))
               /\ calls' = [calls EXCEPT ![c] = Respond(@, 200, [success |-> TRUE])]
          ELSE /\ calls' = [calls EXCEPT ![c] = Caught(@, outcome, "Failed to track analytics")]
               /\ UNCHANGED analytics
    /\ UNCHANGED <<applications, deployments, pipelines, requests, appSeq, conversations, sessions, client>>

----------------------------------------------------------------------------
(* The admin surface; its handlers have no await *)

AdminUsername == "admin"
AdminPassword == "seskrow2024"

\* credential pairs a client may send
Credentials ==
    { [username |-> "admin", password |-> "seskrow2024"],
      [username |-> "admin", password |-> "admin"],
      [username |-> "root",  password |-> "seskrow2024"] }

\* as AdminLogin, with the username compared alone
AdminLoginUsernameOnly(c, session, body) ==
    /\ SlotFree(c)
    /\ LET call == StartCall("admin-login", None, [session |-> session, body |-> body])
       IN  IF body.username = AdminUsername
           THEN /\ sessions' = [sessions EXCEPT ![session].isAdmin = TRUE]
                /\ calls' = [calls EXCEPT ![c] = Respond(call, 200, [success |-> TRUE])]
           ELSE /\ calls' = [calls EXCEPT ![c] = Respond(call, 401, "Invalid credentials")]
                /\ UNCHANGED sessions
    /\ UNCHANGED <<applications, deployments, pipelines, requests, appSeq, conversations, analytics, client>>

\* POST /api/admin/login
AdminLogin(c, session, body) ==
    /\ SlotFree(c)
    /\ LET call == StartCall("admin-login", None, [session |-> session, body |-> body])
       IN  IF body.username = AdminUsername /\ body.password = AdminPassword
           THEN /\ sessions' = [sessions EXCEPT ![session].isAdmin = TRUE]
                /\ calls' = [calls EXCEPT ![c] = Respond(call, 200, [success |-> TRUE])]
           ELSE /\ calls' = [calls EXCEPT ![c] = Respond(call, 401, "Invalid credentials")]
                /\ UNCHANGED sessions
    /\ UNCHANGED <<applications, deployments, pipelines, requests, appSeq, conversations, analytics, client>>

\* GET /api/admin/logout
AdminLogout(c, session) ==
    /\ SlotFree(c)
    /\ sessions' = [sessions EXCEPT ![session].isAdmin = FALSE]
    /\ calls' = [calls EXCEPT ![c] =
           Respond(StartCall("admin-logout", None, [session |-> session]), 200, [success |-> TRUE])]
    /\ UNCHANGED <<applications, deployments, pipelines, requests, appSeq, conversations, analytics, client>>

\* GET /api/admin/verify, /api/admin/users and /api/admin/analytics
AdminRoutes == {"admin-verify", "admin-users", "admin-analytics"}

AdminGet(c, session, route) ==
    /\ SlotFree(c)
    /\ LET call == StartCall(route, None, [session |-> session])
       IN  calls' = [calls EXCEPT ![c] =
               IF sessions[session].isAdmin
               THEN Respond(call, 200, route)
               ELSE Respond(call, 401, "Unauthorized")]
    /\ UNCHANGED <<applications, deployments, pipelines, requests, appSeq, conversations,
                   analytics, sessions, client>>

----------------------------------------------------------------------------
(* Creating and deleting applications, starting from the registered        *)
(* applications or from the store after the free user u1 has deleted       *)
(* theirs.                                                                 *)

AppInit ==
    /\ applications \in {Registered, deleteApplication(Registered, 1)}
    /\ deployments = <<>>
    /\ pipelines = <<>>
    /\ requests = [r \in 1..MaxRequests |-> IdleRequest]
    /\ appSeq = 2
    /\ conversations = <<>>
    /\ analytics = <<>>
    /\ calls = [c \in 1..MaxCalls |-> IdleCall]
    /\ sessions = [s \in Sessions |-> NewSession]
    /\ client = IdleClient

AppNext ==
    \/ \E c \in 1..MaxCalls, user \in Users, body \in ApplicationBodies : CreateGetUser(c, user, body)
    \/ \E c \in 1..MaxCalls : CreateCount(c)
    \/ \E c \in 1..MaxCalls : CreateCheck(c)
    \/ \E c \in 1..MaxCalls : CreateInsert(c)
    \/ \E c \in 1..MaxCalls, user \in Users, id \in RequestedIds : DeleteLookup(c, user, id)
    \/ \E c \in 1..MaxCalls : DeleteApply(c)

AppSpec == AppInit /\ [][AppNext]_vars

----------------------------------------------------------------------------
(* The application-scoped requests (deploy, delete, analytics) on the      *)
(* registered applications; MaxCalls requests arrive in all.               *)

Issued ==
    Cardinality({r \in DOMAIN requests : requests[r].pc # "idle"}) +
    Cardinality({c \in DOMAIN calls : calls[c].pc # "idle"})

AccessNext ==
    \/ \E r \in 1..MaxRequests, user \in Users, id \in RequestedIds :
          Issued < MaxCalls /\ DeployLookup(r, user, id)
    \/ \E c \in 1..MaxCalls, user \in Users, id \in RequestedIds :
          Issued < MaxCalls /\ DeleteLookup(c, user, id)
    \/ \E c \in 1..MaxCalls, user \in Users, id \in RequestedIds, days \in RequestedDays :
          Issued < MaxCalls /\ AnalyticsLookup(c, user, id, days)
    \/ \E r \in 1..MaxRequests : DeployCreate(r)
    \/ \E c \in 1..MaxCalls : DeleteApply(c)
    \/ \E c \in 1..MaxCalls : AnalyticsRead(c)
    \/ \E d \in 1..MaxRequests : InitWrite(d)
    \/ \E d \in 1..MaxRequests : Fetch(d)
    \/ \E d \in 1..MaxRequests : Json(d)
    \/ \E d \in 1..MaxRequests : AnalysisWrite(d)
    \/ \E d \in 1..MaxRequests : Timer(d)
    \/ \E d \in 1..MaxRequests : SuccessWrite(d)
    \/ \E d \in 1..MaxRequests : AppWrite(d)
    \/ \E d \in 1..MaxRequests : CatchWrite(d)
    \/ \E d \in 1..MaxRequests : CatchAppWrite(d)

AccessSpec == Init /\ [][AccessNext]_vars

----------------------------------------------------------------------------
(* Every endpoint, on the registered applications; MaxOps requests arrive  *)
(* in all.                                                                 *)

FullNext ==
    \/ \E r \in 1..MaxRequests, user \in Users, id \in RequestedIds :
          Issued < MaxOps /\ DeployLookup(r, user, id)
    \/ \E c \in 1..MaxCalls, user \in Users, body \in ApplicationBodies :
          Issued < MaxOps /\ CreateGetUser(c, user, body)
    \/ \E c \in 1..MaxCalls, user \in Users, id \in RequestedIds :
          Issued < MaxOps /\ DeleteLookup(c, user, id)
    \/ \E c \in 1..MaxCalls, user \in Users, id \in RequestedIds, days \in RequestedDays :
          Issued < MaxOps /\ AnalyticsLookup(c, user, id, days)
    \/ \E c \in 1..MaxCalls, user \in Users, body \in ChatBodies :
          Issued < MaxOps /\ ChatArrive(c, user, body)
    \/ \E c \in 1..MaxCalls, body \in ChatBodies :
          Issued < MaxOps /\ PublicArrive(c, body)
    \/ \E c \in 1..MaxCalls, subdomain \in TrackedSubdomains :
          Issued < MaxOps /\ TrackLookup(c, subdomain)
    \/ \E c \in 1..MaxCalls, session \in Sessions, body \in Credentials :
          Issued < MaxOps /\ AdminLogin(c, session, body)
    \/ \E c \in 1..MaxCalls, session \in Sessions :
          Issued < MaxOps /\ AdminLogout(c, session)
    \/ \E c \in 1..MaxCalls, session \in Sessions, route \in AdminRoutes :
          Issued < MaxOps /\ AdminGet(c, session, route)
    \/ \E r \in 1..MaxRequests : DeployCreate(r)
    \/ \E c \in 1..MaxCalls : CreateCount(c)
    \/ \E c \in 1..MaxCalls : CreateCheck(c)
    \/ \E c \in 1..MaxCalls : CreateInsert(c)
    \/ \E c \in 1..MaxCalls : DeleteApply(c)
    \/ \E c \in 1..MaxCalls : AnalyticsRead(c)
    \/ \E c \in 1..MaxCalls : ChatFetch(c)
    \/ \E c \in 1..MaxCalls : ChatJson(c)
    \/ \E c \in 1..MaxCalls : ChatCreate(c)
    \/ \E c \in 1..MaxCalls : PublicFetch(c)
    \/ \E c \in 1..MaxCalls : PublicJson(c)
    \/ \E d \in 1..MaxRequests : InitWrite(d)
    \/ \E d \in 1..MaxRequests : Fetch(d)
    \/ \E d \in 1..MaxRequests : Json(d)
    \/ \E d \in 1..MaxRequests : AnalysisWrite(d)
    \/ \E d \in 1..MaxRequests : Timer(d)
    \/ \E d \in 1..MaxRequests : SuccessWrite(d)
    \/ \E d \in 1..MaxRequests : AppWrite(d)
    \/ \E d \in 1..MaxRequests : CatchWrite(d)
    \/ \E d \in 1..MaxRequests : CatchAppWrite(d)

FullSpec == Init /\ [][FullNext]_vars

----------------------------------------------------------------------------
(* Reading the analytics of the registered applications, over the tables   *)
(* recordAnalytics can have filled: up to MaxEvents visits, in the order   *)
(* of their timestamps.                                                    *)

\* days of the visits: 35 days ago, 2 days ago
VisitDays == {Today - 35, Today - 2}

Visits ==
    {[NewEvent(a) EXCEPT !.visitedAt = day] : a \in DOMAIN Registered, day \in VisitDays}

RECURSIVE SeqsUpTo(_, _)
SeqsUpTo(S, n) ==
    IF n = 0 THEN {<<>>}
    ELSE SeqsUpTo(S, n - 1) \cup
         {Append(seq, x) : seq \in {q \in SeqsUpTo(S, n - 1) : Len(q) = n - 1}, x \in S}

AnalyticsTables ==
    {table \in SeqsUpTo(Visits, MaxEvents) :
        \A i, j \in DOMAIN table : i < j => table[i].visitedAt <= table[j].visitedAt}

AnalyticsInit ==
    /\ applications = Registered
    /\ deployments = <<>>
    /\ pipelines = <<>>
    /\ requests = [r \in 1..MaxRequests |-> IdleRequest]
    /\ appSeq = 2
    /\ conversations = <<>>
    /\ analytics \in AnalyticsTables
    /\ calls = [c \in 1..MaxCalls |-> IdleCall]
    /\ sessions = [s \in Sessions |-> NewSession]
    /\ client = IdleClient

AnalyticsNext ==
    \/ \E c \in 1..MaxCalls, user \in Users, id \in RequestedIds, days \in RequestedDays :
          AnalyticsLookup(c, user, id, days)
    \/ \E c \in 1..MaxCalls : AnalyticsRead(c)

AnalyticsSpec == AnalyticsInit /\ [][AnalyticsNext]_vars

----------------------------------------------------------------------------
(* The admin surface alone *)

AdminNext ==
    \/ \E c \in 1..MaxCalls, session \in Sessions, body \in Credentials :
          AdminLogin(c, session, body)
    \/ \E c \in 1..MaxCalls, session \in Sessions : AdminLogout(c, session)
    \/ \E c \in 1..MaxCalls, session \in Sessions, route \in AdminRoutes :
          AdminGet(c, session, route)

AdminSpec == Init /\ [][AdminNext]_vars

----------------------------------------------------------------------------
(* AnalyticsChart: the visits grouped by day.  A timestamp is a day        *)
(* number, day 1 being 1 January 2024; the text of a date is its three     *)
(* numbers in the order the locale writes them.                            *)

\* new Date(visitedAt), in the browser's time zone
CalendarDate(day) ==
    IF day <= 31 THEN [year |-> 2024, month |-> 1, date |-> day]
    ELSE IF day <= 60 THEN [year |-> 2024, month |-> 2, date |-> day - 31]
    ELSE [year |-> 2024, month |-> 3, date |-> day - 60]

\* locales of the browser: month first, day first
Locales == {"en-US", "en-GB"}

\* toLocaleDateString(): "M/D/YYYY" in en-US, "DD/MM/YYYY" in en-GB
ToLocaleDateString(locale, d) ==
    IF locale = "en-US" THEN <<d.month, d.date, d.year>> ELSE <<d.date, d.month, d.year>>

\* new Date(text).getTime(): the text is read month first; None is NaN
\* (Invalid Date)
GetTime(text) ==
    IF text[1] \in 1..12 /\ text[2] \in 1..31
    THEN Some(text[3] * 372 + text[1] * 31 + text[2])
    ELSE None

\* the comparator new Date(a).getTime() - new Date(b).getTime(); sort
\* takes NaN for 0
Compare(a, b) ==
    IF GetTime(a[1]) = None \/ GetTime(b[1]) = None THEN 0
    ELSE Get(GetTime(a[1])) - Get(GetTime(b[1]))

\* Array.prototype.sort on a short array: a stable insertion sort
RECURSIVE InsertEntry(_, _)
InsertEntry(entry, sorted) ==
    IF sorted = <<>> THEN <<entry>>
    ELSE IF Compare(entry, Head(sorted)) < 0 THEN <<entry>> \o sorted
    ELSE <<Head(sorted)>> \o InsertEntry(entry, Tail(sorted))

RECURSIVE SortEntries(_)
SortEntries(entries) ==
    IF entries = <<>> THEN <<>>
    ELSE InsertEntry(entries[Len(entries)], SortEntries(SubSeq(entries, 1, Len(entries) - 1)))

\* acc[day] = (acc[day] || 0) + 1 on the entries of acc, kept in the order
\* the keys were first set
Count(acc, day) ==
    IF \E i \in DOMAIN acc : acc[i][1] = day
    THEN [i \in DOMAIN acc |-> IF acc[i][1] = day THEN <<day, acc[i][2] + 1>> ELSE acc[i]]
    ELSE Append(acc, <<day, 1>>)

\* Object.entries(visitsByDay) after the reduce over the rows
RECURSIVE VisitsByDay(_, _)
VisitsByDay(locale, rows) ==
    IF rows = <<>> THEN <<>>
    ELSE Count(VisitsByDay(locale, SubSeq(rows, 1, Len(rows) - 1)),
               ToLocaleDateString(locale, CalendarDate(rows[Len(rows)].visitedAt)))

\* slice(-7)
Last7(entries) ==
    IF Len(entries) <= 7 THEN entries ELSE SubSeq(entries, Len(entries) - 6, Len(entries))

ChartData(locale, rows) == Last7(SortEntries(VisitsByDay(locale, rows)))

\* days of the visits: 2, 13 and 14 January, 1 February
ChartDays == {2, 13, 14, 32}

\* what the analytics request returned: rows of one application, newest first
ChartRows ==
    {rows \in SeqsUpTo({[NewEvent(1) EXCEPT !.visitedAt = day] : day \in ChartDays}, MaxVisits) :
        \A i, j \in DOMAIN rows : i < j => rows[i].visitedAt >= rows[j].visitedAt}

ChartInit ==
    /\ applications = Registered
    /\ deployments = <<>>
    /\ pipelines = <<>>
    /\ requests = [r \in 1..MaxRequests |-> IdleRequest]
    /\ appSeq = 2
    /\ conversations = <<>>
    /\ analytics = <<>>
    /\ calls = [c \in 1..MaxCalls |-> IdleCall]
    /\ sessions = [s \in Sessions |-> NewSession]
    /\ \E locale \in Locales, rows \in ChartRows :
          client = [kind |-> "chart", pc |-> "loaded", locale |-> locale,
                    analytics |-> rows, chartData |-> None]

\* the component renders with the query's data
Render ==
    /\ client.kind = "chart" /\ client.pc = "loaded"
    /\ client' = [client EXCEPT !.pc = "rendered",
                                !.chartData = Some(ChartData(client.locale, client.analytics))]
    /\ UNCHANGED <<applications, deployments, pipelines, requests, appSeq, conversations,
                   analytics, calls, sessions>>

ChartNext == Render

ChartSpec == ChartInit /\ [][ChartNext]_vars

----------------------------------------------------------------------------
(* GroqAI, the analysis client of the browser *)

\* methods of the client; each of the last three builds two messages and
\* calls chat once
GroqMethods == {"chat", "analyzeCode", "getDeploymentHelp", "optimizeBuildConfig"}

\* response bodies: text that is no JSON, and JSON objects
GroqErrorBodies ==
    { [parses |-> FALSE, error |-> None, choices |-> None],
      [parses |-> TRUE,  error |-> None, choices |-> None],
      [parses |-> TRUE,  error |-> Some("Rate limit reached"), choices |-> None] }

GroqBodies ==
    { [parses |-> FALSE, error |-> None, choices |-> None],
      [parses |-> TRUE,  error |-> None, choices |-> None],
      [parses |-> TRUE,  error |-> None, choices |-> Some(<<>>)],
      [parses |-> TRUE,  error |-> None, choices |-> Some(<<"">>)],
      [parses |-> TRUE,  error |-> None, choices |-> Some(<<"advice">>)] }

\* what fetch settles with: a rejection, a non-2xx response, a 2xx response
GroqResponses ==
    { [fetch |-> "rejects", ok |-> FALSE, status |-> "", statusText |-> "",
       body |-> [parses |-> FALSE, error |-> None, choices |-> None]] } \cup
    { [fetch |-> "resolves", ok |-> FALSE, status |-> st[1], statusText |-> st[2], body |-> b] :
          st \in {<<"401", "Unauthorized">>, <<"429", "Too Many Requests">>,
                  <<"500", "Internal Server Error">>},
          b \in GroqErrorBodies } \cup
    { [fetch |-> "resolves", ok |-> TRUE, status |-> "200", statusText |-> "OK", body |-> b] :
          b \in GroqBodies }

Returned(text) == [kind |-> "returned", text |-> text, error |-> None]
Thrown(name, message) ==
    [kind |-> "threw", text |-> "", error |-> Some([name |-> name, message |-> message])]

\* the client after chat has settled
Settle(c, outcome) == [c EXCEPT !.pc = "settled", !.response = None, !.outcome = Some(outcome)]

\* `GroqAI API error: ${response.status} - ${errorData.error?.message || response.statusText}`
\* with errorData = await response.json().catch(() => ({}))
ApiError(resp) ==
    Thrown("Error",
           <<"GroqAI API error: ", resp.status, " - ",
             IF resp.body.parses /\ IsSome(resp.body.error) /\ Get(resp.body.error) # ""
             THEN Get(resp.body.error) ELSE resp.statusText>>)

\* as ChatResult, with an empty choice list answered by an empty text
ChatResultLenient(body) ==
    IF ~body.parses THEN Thrown("SyntaxError", <<"Unexpected token">>)
    ELSE IF body.choices = None THEN Thrown("Error", <<"No response from GroqAI">>)
    ELSE IF Len(Get(body.choices)) = 0 THEN Returned("")
    ELSE Returned(Get(body.choices)[1])

\* the outcome of chat once the body of a 2xx response has been read
ChatResult(body) ==
    IF ~body.parses THEN Thrown("SyntaxError", <<"Unexpected token">>)
    ELSE IF body.choices = None \/ Len(Get(body.choices)) = 0
    THEN Thrown("Error", <<"No response from GroqAI">>)
    ELSE Returned(Get(body.choices)[1])

GroqInit ==
    /\ applications = Registered
    /\ deployments = <<>>
    /\ pipelines = <<>>
    /\ requests = [r \in 1..MaxRequests |-> IdleRequest]
    /\ appSeq = 2
    /\ conversations = <<>>
    /\ analytics = <<>>
    /\ calls = [c \in 1..MaxCalls |-> IdleCall]
    /\ sessions = [s \in Sessions |-> NewSession]
    /\ \E apiKey \in {"", "gsk_key"} :
          client = [kind |-> "groq", pc |-> "idle", apiKey |-> apiKey, method |-> "",
                    fetches |-> 0, response |-> None, outcome |-> None]

\* a method is invoked: chat throws without a key, else its fetch is in flight
GroqInvoke(method) ==
    /\ client.kind = "groq" /\ client.pc = "idle"
    /\ client' =
          IF client.apiKey = ""
          THEN Settle([client EXCEPT !.method = method],
                      Thrown("Error", <<"GroqAI API key is required. Please set GROQ_API_KEY environment variable.">>))
          ELSE [client EXCEPT !.method = method, !.pc = "fetch", !.fetches = @ + 1]
    /\ UNCHANGED <<applications, deployments, pipelines, requests, appSeq, conversations,
                   analytics, calls, sessions>>

\* fetch settles
GroqFetch ==
    /\ client.kind = "groq" /\ client.pc = "fetch"
    /\ \E resp \in GroqResponses :
          client' =
              IF resp.fetch = "rejects" THEN Settle(client, Thrown("TypeError", <<"fetch failed">>))
              ELSE [client EXCEPT !.pc = IF resp.ok THEN "json" ELSE "error_json",
                                  !.response = Some(resp)]
    /\ UNCHANGED <<applications, deployments, pipelines, requests, appSeq, conversations,
                   analytics, calls, sessions>>

\* the body of a non-2xx response has been read, or not
GroqErrorJson ==
    /\ client.kind = "groq" /\ client.pc = "error_json"
    /\ client' = Settle(client, ApiError(Get(client.response)))
    /\ UNCHANGED <<applications, deployments, pipelines, requests, appSeq, conversations,
                   analytics, calls, sessions>>

\* the body of a 2xx response has been read, or not
GroqJson ==
    /\ client.kind = "groq" /\ client.pc = "json"
    /\ client' = Settle(client, ChatResult(Get(client.response).body))
    /\ UNCHANGED <<applications, deployments, pipelines, requests, appSeq, conversations,
                   analytics, calls, sessions>>

GroqNext ==
    \/ \E method \in GroqMethods : GroqInvoke(method)
    \/ GroqFetch
    \/ GroqErrorJson
    \/ GroqJson

GroqSpec == GroqInit /\ [][GroqNext]_vars

----------------------------------------------------------------------------
(* The process stops: the detached activations and the handlers in flight  *)
(* are lost, nothing records them, and no request is served any more.      *)

StopPipeline(p) == IF Settled(p) THEN p ELSE [p EXCEPT !.pc = "stopped"]

StopHandler(h) == IF h.pc = "responded" THEN h ELSE [h EXCEPT !.pc = "stopped"]

Stop ==
    /\ pipelines' = [d \in DOMAIN pipelines |-> StopPipeline(pipelines[d])]
    /\ requests' = [r \in DOMAIN requests |-> StopHandler(requests[r])]
    /\ calls' = [c \in DOMAIN calls |-> StopHandler(calls[c])]
    /\ <<pipelines', requests', calls'>> # <<pipelines, requests, calls>>
    /\ UNCHANGED <<applications, deployments, appSeq, conversations, analytics, sessions, client>>

----------------------------------------------------------------------------
(* Two overlapping deploy calls for one application: both handlers have    *)
(* passed the ownership check of application 1 before either creates its   *)
(* deployment.  Any further request slot has been answered already.        *)

OverlapInit ==
    /\ applications =
          (1 :> NewApplication(1, "u1", "Demo", "demo-1", "zip")) @@
          (2 :> NewApplication(2, "u2", "Blog", "blog", "github"))
    /\ deployments = <<>>
    /\ pipelines = <<>>
    /\ requests = [r \in 1..MaxRequests |->
          IF r \in {1, 2}
          THEN [IdleRequest EXCEPT !.pc = "checked", !.user = Some("u1"),
                                   !.applicationId = Some(1),
                                   !.application = Some(NewApplication(1, "u1", "Demo", "demo-1", "zip"))]
          ELSE Respond([IdleRequest EXCEPT !.user = Some("u1"), !.applicationId = Some(3)],
                       404, "Application not found")]
    /\ appSeq = 2
    /\ conversations = <<>>
    /\ analytics = <<>>
    /\ calls = [c \in 1..MaxCalls |-> IdleCall]
    /\ sessions = [s \in Sessions |-> NewSession]
    /\ client = IdleClient

OverlapNext ==
    \/ \E r \in 1..MaxRequests : DeployCreate(r)
    \/ \E d \in 1..MaxRequests : InitWrite(d)
    \/ \E d \in 1..MaxRequests : Fetch(d)
    \/ \E d \in 1..MaxRequests : Json(d)
    \/ \E d \in 1..MaxRequests : AnalysisWrite(d)
    \/ \E d \in 1..MaxRequests : Timer(d)
    \/ \E d \in 1..MaxRequests : SuccessWrite(d)
    \/ \E d \in 1..MaxRequests : AppWrite(d)
    \/ \E d \in 1..MaxRequests : CatchWrite(d)
    \/ \E d \in 1..MaxRequests : CatchAppWrite(d)

OverlapSpec == OverlapInit /\ [][OverlapNext]_vars

CrashNext ==
    \/ Next
    \/ Stop

CrashSpec == Init /\ [][CrashNext]_vars

TypeOK ==
    /\ \A d \in DOMAIN deployments :
          deployments[d].status \in {"pending", "building", "success", "failed"}
    /\ \A a \in DOMAIN applications :
          applications[a].status \in {"pending", "building", "live", "failed"}
    /\ DOMAIN pipelines = DOMAIN deployments

----------------------------------------------------------------------------
(* Fair scheduling of the detached pipelines: the event loop runs every    *)
(* continuation whose awaited promise has settled.                         *)

PipelineStep(d) ==
    /\ \/ InitWrite(d) \/ Fetch(d) \/ Json(d) \/ AnalysisWrite(d) \/ Timer(d)
       \/ SuccessWrite(d) \/ AppWrite(d) \/ CatchWrite(d) \/ CatchAppWrite(d)

FairSpec == Spec /\ \A d \in 1..MaxRequests : WF_vars(PipelineStep(d))

----------------------------------------------------------------------------
(* Vocabulary of the properties *)

Terminal == {"success", "failed"}

Contains(seq, x) == \E i \in DOMAIN seq : seq[i] = x

\* the outer catch block of the activation was entered
Threw(p) == IsSome(p.error)

\* step of the activation at which the caught error was thrown
ThrownAt(p) == Get(p.error).at

\* the steps of the analysis call, inside the inner try
AnalysisSteps == {"fetch", "json"}

\* the storage writes inside the outer try
OuterWrites == {"init_write", "analysis_write", "success_write", "app_write"}

\* the analysis call of the activation failed
AnalysisFailedIn(p) ==
    \/ Contains(p.logs, AnalysisSkippedLine)
    \/ Threw(p) /\ ThrownAt(p) \in AnalysisSteps

\* no step after the analysis call threw
LaterStepsSucceeded(p) == Threw(p) => ThrownAt(p) \in AnalysisSteps

\* application row the pipeline of deployment d writes
AppOf(d) == applications[pipelines[d].application.id]

DeploymentsOf(a) == {d \in DOMAIN deployments : deployments[d].applicationId = a}

----------------------------------------------------------------------------
(* C1: every deployment created by an accepted deploy request eventually   *)
(* has a terminal status (success or failed), under fair scheduling of the *)
(* pipeline, whatever the analysis outcome and whichever storage writes    *)
(* fail, the failure handler's own writes included.                        *)
C1_EventuallyTerminal ==
    \A d \in 1..MaxRequests :
        [](d \in DOMAIN deployments =>
              <>(d \in DOMAIN deployments /\ deployments[d].status \in Terminal))

(* C2: a deployment is immutable once terminal: no step changes the status *)
(* or the buildLogs of a deployment whose status is success or failed.     *)
C2_ImmutableOnceTerminal ==
    [][\A d \in DOMAIN deployments :
          deployments[d].status \in Terminal =>
              /\ deployments'[d].status = deployments[d].status
              /\ deployments'[d].buildLogs = deployments[d].buildLogs]_vars

(* C3: a failed analysis call does not decide the deployment: when the     *)
(* analysis failed and every later step succeeded, the settled deployment  *)
(* is 'success', and the step that finishes the pipeline leaves its        *)
(* application 'live'.                                                     *)
C3_AnalysisFailureIndependent ==
    /\ [](\A d \in DOMAIN pipelines :
             LET p == pipelines[d]
             IN  Settled(p) /\ AnalysisFailedIn(p) /\ LaterStepsSucceeded(p) =>
                     deployments[d].status = "success")
    /\ [][\A d \in DOMAIN pipelines :
             LET p == pipelines'[d]
             IN  ~Settled(pipelines[d]) /\ Settled(p)
                 /\ AnalysisFailedIn(p) /\ LaterStepsSucceeded(p) =>
                     /\ deployments'[d].status = "success"
                     /\ applications'[p.application.id].status = "live"]_vars

C3_Witness ==
    \E d \in DOMAIN pipelines :
        /\ pipelines[d].pc = "done"
        /\ Contains(pipelines[d].logs, AnalysisSkippedLine)
        /\ ~Threw(pipelines[d])
        /\ deployments[d].status = "success"
        /\ AppOf(d).status = "live"

(* C4: an accepted deploy request creates a deployment row with status     *)
(* 'building' and no logs and answers 201 with that row in the step that   *)
(* starts the pipeline: when the response is sent the pipeline is still at *)
(* its first await and the row is not terminal.                            *)
C4_ResponseBeforePipeline ==
    /\ [](\A r \in DOMAIN requests :
             LET res == requests[r].response
             IN  IsSome(res) /\ Get(res).status = 201 =>
                     /\ Get(res).body.status = "building"
                     /\ Get(res).body.buildLogs = None)
    /\ [][\A r \in DOMAIN requests :
             LET res == requests'[r].response
             IN  requests[r].response = None /\ IsSome(res) /\ Get(res).status = 201 =>
                     LET id == Get(res).body.id
                     IN  /\ DOMAIN deployments' = DOMAIN deployments \cup {id}
                         /\ id \notin DOMAIN deployments
                         /\ deployments'[id] = Get(res).body
                         /\ deployments'[id].status \notin Terminal
                         /\ pipelines'[id].pc = "init_write"]_vars

C4_Witness ==
    \E r \in DOMAIN requests :
        /\ IsSome(requests[r].response)
        /\ Get(requests[r].response).status = 201
        /\ deployments[Get(requests[r].response).body.id].status \in Terminal

(* C5: the persisted buildLogs are append-only: in every step the lines    *)
(* persisted before are a prefix of the lines persisted after.             *)
C5_LogsAppendOnly ==
    [][\A d \in DOMAIN deployments :
          IsPrefix(LinesOf(deployments[d].buildLogs), LinesOf(deployments'[d].buildLogs))]_vars

\* a record written by all four writes: the failure line follows "complete"
C5_Witness ==
    \E d \in DOMAIN deployments :
        LET ls == LinesOf(deployments[d].buildLogs)
        IN  /\ Len(ls) = NumStages + 5
            /\ ls[Len(ls) - 1] = CompleteLine
            /\ StartsWith(ls[Len(ls)], FailedPrefix)

(* C6: in a terminal deployment the status agrees with the last persisted  *)
(* log line: success iff it is "Deployment complete!", failed iff it       *)
(* starts with "Deployment failed: ".                                      *)
C6_StatusAgreesWithLastLine ==
    \A d \in DOMAIN deployments :
        deployments[d].status \in Terminal =>
            /\ deployments[d].status = "success" <=>
                   LastLine(deployments[d].buildLogs) = CompleteLine
            /\ deployments[d].status = "failed" <=>
                   StartsWith(LastLine(deployments[d].buildLogs), FailedPrefix)

C6_Witness ==
    \E d, e \in DOMAIN deployments :
        /\ deployments[d].status = "success"
        /\ deployments[e].status = "failed"
        /\ Contains(LinesOf(deployments[e].buildLogs), CompleteLine)

(* C7: a polling client sees every stage on its own: each fixed stage line *)
(* is first persisted as the last line of buildLogs, before the line of    *)
(* the next stage is persisted.                                            *)
C7_StagesObservable ==
    [][\A d \in DOMAIN deployments : \A k \in 1..NumStages :
          /\ ~Contains(LinesOf(deployments[d].buildLogs), StageLines[k])
          /\ Contains(LinesOf(deployments'[d].buildLogs), StageLines[k])
          => LastLine(deployments'[d].buildLogs) = StageLines[k]]_vars

(* C8: whenever a step of a pipeline threw, the finished run has appended  *)
(* a "Deployment failed: " line and left both the deployment and its       *)
(* application 'failed'.                                                   *)
C8_FailurePath ==
    \A d \in DOMAIN pipelines :
        Settled(pipelines[d]) /\ Threw(pipelines[d]) =>
            /\ StartsWith(LastLine(deployments[d].buildLogs), FailedPrefix)
            /\ deployments[d].status = "failed"
            /\ AppOf(d).status = "failed"

(* C9, as claimed: a deployment is 'failed' only after a throw in the      *)
(* stage sequence, the success write or the application update.            *)
C9_FailedOnlyFromSteps3to5 ==
    \A d \in DOMAIN deployments :
        deployments[d].status = "failed" =>
            /\ Threw(pipelines[d])
            /\ ThrownAt(pipelines[d]) \in {"timer", "success_write", "app_write"}

(* C9, amended: a deployment is 'failed' only after one of the storage     *)
(* writes inside the outer try threw (the step-1 write, the write of the   *)
(* analysis result, the success write, the application update), never      *)
(* after a failure of the analysis call itself; and a settled pipeline is  *)
(* never run again.                                                        *)
C9_FailedOnlyFromOuterWrites ==
    /\ [](\A d \in DOMAIN deployments :
             deployments[d].status = "failed" =>
                 /\ Threw(pipelines[d])
                 /\ ThrownAt(pipelines[d]) \in OuterWrites)
    /\ [][\A d \in DOMAIN pipelines :
             Settled(pipelines[d]) =>
                 /\ pipelines'[d] = pipelines[d]
                 /\ deployments'[d] = deployments[d]]_vars

\* a deployment failed by the step-1 write, after a failed analysis elsewhere
C9_Witness ==
    \E d, e \in DOMAIN deployments :
        /\ deployments[d].status = "failed"
        /\ pipelines[d].pc = "done"
        /\ ThrownAt(pipelines[d]) = "init_write"
        /\ Settled(pipelines[e])
        /\ Contains(pipelines[e].logs, AnalysisSkippedLine)
        /\ deployments[e].status = "success"

(* C10: when the only deployment of an application has run with no step    *)
(* failing, the deployment is 'success' with deployedAt set and the        *)
(* application is 'live' with lastDeployedAt set and deploymentUrl         *)
(* "https://" + subdomain + ".seskrow.com".                                *)
C10_SuccessfulDeployment ==
    \A d \in DOMAIN pipelines :
        LET a == deployments[d].applicationId
        IN  /\ pipelines[d].pc = "done"
            /\ ~Threw(pipelines[d])
            /\ DeploymentsOf(a) = {d}
            => /\ deployments[d].status = "success"
               /\ IsSome(deployments[d].deployedAt)
               /\ applications[a].status = "live"
               /\ IsSome(applications[a].lastDeployedAt)
               /\ applications[a].deploymentUrl =
                      Some(<<"https://", applications[a].subdomain, ".seskrow.com">>)

C10_Witness ==
    \E d \in DOMAIN pipelines :
        /\ pipelines[d].pc = "done"
        /\ ~Threw(pipelines[d])
        /\ DeploymentsOf(deployments[d].applicationId) = {d}
        /\ applications[deployments[d].applicationId].deploymentUrl =
               Some(<<"https://", "demo-1", ".seskrow.com">>)

(* C11: the success write of the deployment and the 'live' write of the    *)
(* application are two steps: the step that makes a deployment 'success'   *)
(* leaves the applications table alone and the application update is still *)
(* to come; and once the process has stopped between them, the deployment  *)
(* stays 'success' and the application stays as it was.                    *)
C11_TwoSeparateWrites ==
    /\ [][\A d \in DOMAIN deployments :
             deployments[d].status # "success" /\ deployments'[d].status = "success" =>
                 /\ applications' = applications
                 /\ pipelines'[d].pc = "app_write"]_vars
    /\ [][\A d \in DOMAIN pipelines :
             pipelines[d].pc = "stopped" =>
                 /\ deployments'[d] = deployments[d]
                 /\ applications' = applications]_vars

\* the process stopped between the two writes
C11_Witness ==
    \E d \in DOMAIN pipelines :
        /\ pipelines[d].pc = "stopped"
        /\ deployments[d].status = "success"
        /\ AppOf(d).status # "live"

(* C12: nothing serializes the deployments of one application: whichever  *)
(* pipeline finishes writes the application's status from its own outcome  *)
(* ('live' after its success path, 'failed' after its failure handler),    *)
(* whether or not a newer deployment of the application exists; so the     *)
(* last application write wins, not the newest deployment.                 *)
C12_LastWriterWins ==
    [][\A d \in DOMAIN pipelines :
          pipelines[d].pc # "done" /\ pipelines'[d].pc = "done" =>
              applications'[pipelines[d].application.id].status =
                  IF Threw(pipelines[d]) THEN "failed" ELSE "live"]_vars

\* both pipelines have finished; the newest deployment is 'success', the
\* older one 'failed', and the application is 'failed'
C12_Witness ==
    /\ Len(pipelines) = 2
    /\ pipelines[1].pc = "done" /\ pipelines[2].pc = "done"
    /\ deployments[1].applicationId = deployments[2].applicationId
    /\ deployments[2].status = "success"
    /\ deployments[1].status = "failed"
    /\ AppOf(2).status = "failed"

----------------------------------------------------------------------------
(* Creating and deleting applications *)

\* the handler of slot c is a create-application request for this subdomain
\* that has passed validation
CreateFor(c, subdomain) ==
    /\ calls[c].kind = "create"
    /\ IsSome(calls[c].local)
    /\ "data" \in DOMAIN Get(calls[c].local)
    /\ Get(calls[c].local).data.subdomain = Some(subdomain)

Subdomains == {"demo-1", "blog", "shop", "store"}

Held(subdomain) ==
    \E a \in DOMAIN applications : applications[a].subdomain = subdomain

Status(call) == IF IsSome(call.response) THEN Get(call.response).status ELSE 0

(* C13: no two existing applications have the same subdomain, in every     *)
(* reachable state, for any interleaving of create-application requests    *)
(* (also two concurrent requests for one subdomain that both pass the      *)
(* availability pre-check) and delete requests.                            *)
C13_SubdomainUnique ==
    \A a, b \in DOMAIN applications :
        applications[a].subdomain = applications[b].subdomain => a = b

\* two requests for one subdomain both passed the pre-check; the first
\* insert created the application and the second was refused by the index
C13_Witness ==
    \E c, e \in DOMAIN calls, s \in Subdomains :
        /\ CreateFor(c, s) /\ CreateFor(e, s)
        /\ Status(calls[c]) = 201
        /\ calls[e].error = Some(UniqueViolation)
        /\ Held(s)

(* C14: a create-application request whose subdomain is held by an         *)
(* existing application is answered 400 "Subdomain already taken" and      *)
(* creates no application, whether the duplicate is found by the           *)
(* pre-check or by the insert (the storage being reachable).               *)
C14_DuplicateAnswered400 ==
    [][\A c \in DOMAIN calls :
          /\ calls[c].pc \in {"validated", "available"}
          /\ calls'[c].pc = "responded"
          /\ calls'[c].error \notin {Some(e) : e \in DbErrors}
          /\ \E s \in Subdomains : CreateFor(c, s) /\ Held(s)
          => /\ Get(calls'[c].response) = [status |-> 400, body |-> "Subdomain already taken"]
             /\ applications' = applications]_vars

\* the handler of slot c is a create-application request of this user
CreateBy(c, user) == calls[c].kind = "create" /\ calls[c].user = Some(user)

Owned(user) == Cardinality(getUserApplications(user))

Premium(user) == UsersTable[user].isPremium

(* C15: a create-application request by a non-premium user who owns at     *)
(* least one application is refused with 403 and creates nothing, whether  *)
(* or not its body is valid; a request by a premium user is never          *)
(* answered 403, however many applications they own.                       *)
C15_QuotaRefusal ==
    /\ [][\A c \in DOMAIN calls, u \in Users :
             /\ CreateBy(c, u) /\ calls[c].pc = "got_user"
             /\ calls'[c].pc # "got_user" /\ calls'[c].error = None
             /\ ~Premium(u) /\ Owned(u) >= 1
             => /\ Status(calls'[c]) = 403
                /\ applications' = applications]_vars
    /\ [](\A c \in DOMAIN calls, u \in Users :
             CreateBy(c, u) /\ Premium(u) => Status(calls[c]) # 403)

\* a free user owning an application was refused on a body that is not
\* valid, while a premium user owning one created a second
C15_Witness ==
    \E c, e \in DOMAIN calls, u, v \in Users :
        /\ CreateBy(c, u) /\ ~Premium(u) /\ Owned(u) >= 1
        /\ ~ValidApplication(WithUserId(Get(calls[c].params), u))
        /\ Status(calls[c]) = 403
        /\ CreateBy(e, v) /\ Premium(v) /\ Owned(v) >= 2
        /\ Status(calls[e]) = 201

(* C16: a user on the free tier never owns more than one application, in   *)
(* every reachable state, for any interleaving of that user's              *)
(* create-application requests.                                            *)
C16_QuotaInvariant ==
    \A u \in Users : ~Premium(u) => Owned(u) <= 1

----------------------------------------------------------------------------
(* Access to an application *)

Store == <<applications, deployments, pipelines, appSeq, conversations, analytics>>

\* the answer the existence and ownership checks give the caller for this
\* id: 404 for no such application, 403 for another user's, 0 to go on
Expected(user, id) ==
    IF id \notin DOMAIN applications THEN 404
    ELSE IF applications[id].userId # user THEN 403
    ELSE 0

(* C17: deploy, delete and fetch-analytics check existence before          *)
(* ownership: with the lookup resolved, an id of no application is         *)
(* answered 404 and an application of another user 403, and in both cases  *)
(* the store is left as it was (no deployment row, no pipeline, nothing    *)
(* deleted).                                                               *)
C17_ExistenceThenOwnership ==
    /\ [][\A c \in DOMAIN calls :
             /\ calls[c].pc = "idle" /\ calls'[c].pc # "idle"
             /\ calls'[c].kind \in {"delete", "analytics"}
             /\ calls'[c].error = None
             /\ Expected(Get(calls'[c].user), Get(calls'[c].params).id) # 0
             => /\ Status(calls'[c]) = Expected(Get(calls'[c].user), Get(calls'[c].params).id)
                /\ Store' = Store]_vars
    /\ [][\A r \in DOMAIN requests :
             /\ requests[r].pc = "idle" /\ requests'[r].pc # "idle"
             /\ Status(requests'[r]) # 500
             /\ Expected(Get(requests'[r].user), Get(requests'[r].applicationId)) # 0
             => /\ Status(requests'[r]) =
                       Expected(Get(requests'[r].user), Get(requests'[r].applicationId))
                /\ Store' = Store]_vars
    /\ [](\A h \in {calls[c] : c \in DOMAIN calls} \cup {requests[r] : r \in DOMAIN requests} :
             Status(h) \in {403, 404} => h.pc = "responded")

\* another user's delete was answered 403 and the application is still
\* there; a deploy of an id of no application was answered 404 and no
\* deployment exists
C17_Witness ==
    \E c \in DOMAIN calls, r \in DOMAIN requests :
        /\ calls[c].kind = "delete" /\ Status(calls[c]) = 403
        /\ Get(calls[c].params).id \in DOMAIN applications
        /\ applications[Get(calls[c].params).id].userId # Get(calls[c].user)
        /\ Status(requests[r]) = 404
        /\ Get(requests[r].applicationId) \notin DOMAIN applications
        /\ deployments = <<>> /\ pipelines = <<>>

----------------------------------------------------------------------------
(* Chat *)

ChatCalls == {c \in DOMAIN calls : calls[c].kind = "chat"}
PublicCalls == {c \in DOMAIN calls : calls[c].kind = "public-chat"}

Answered(c) == calls[c].pc = "responded"

\* the request of slot c passed the validation of its endpoint
Accepted(c) ==
    IF calls[c].kind = "chat" THEN ValidConversation(Get(calls[c].params))
    ELSE ~MessageMissing(Get(calls[c].params))

FallbackTexts == {ChatFallback, ChatApology, PublicFallback, PublicNotOk, PublicUnavailable}

(* C19: for a message that passes validation, both chat endpoints answer   *)
(* with an HTTP success status and a non-empty response text whatever the  *)
(* upstream call does (network error, non-2xx status, body without         *)
(* choices, empty content): the steps that await the upstream call never   *)
(* answer with an error, and the authenticated endpoint answers 201 once   *)
(* the conversation is stored, the public endpoint 200.                    *)
C19_ChatAlwaysAnswers ==
    /\ [][\A c \in ChatCalls :
             calls[c].pc \in {"fetch", "json"} /\ calls'[c] # calls[c] =>
                 /\ calls'[c].pc \in {"json", "create"}
                 /\ calls'[c].pc = "create" => Get(calls'[c].local).response # ""]_vars
    /\ [](\A c \in ChatCalls :
             Answered(c) /\ Accepted(c) /\ calls[c].error = None =>
                 /\ Status(calls[c]) = 201
                 /\ Get(calls[c].response).body.response # "")
    /\ [](\A c \in PublicCalls :
             Answered(c) /\ Accepted(c) =>
                 /\ Status(calls[c]) = 200
                 /\ Get(calls[c].response).body.response # "")

\* with the upstream call failed or empty, the authenticated endpoint
\* answered 201 and the public endpoint 200, each with a fallback text
C19_Witness ==
    \E c \in ChatCalls, e \in PublicCalls :
        /\ Status(calls[c]) = 201
        /\ Get(calls[c].response).body.response \in FallbackTexts
        /\ Status(calls[e]) = 200
        /\ Get(calls[e].response).body.response \in FallbackTexts

(* C20: the authenticated chat stores one conversation for each request    *)
(* it answers 201 and none otherwise; a conversation is stored only after  *)
(* the upstream call of its request has settled, and its response is not   *)
(* empty; a request rejected by validation is answered at once, without    *)
(* an upstream call, and stores nothing.                                   *)
C20_OneConversationPerRequest ==
    /\ [](Len(conversations) = Cardinality({c \in ChatCalls : Status(calls[c]) = 201}))
    /\ [](\A k \in DOMAIN conversations : conversations[k].response # "")
    /\ [][conversations' # conversations =>
             \E c \in ChatCalls :
                 /\ calls[c].pc = "create" /\ Status(calls'[c]) = 201
                 /\ conversations' = Append(conversations, Get(calls'[c].response).body)
                 /\ Get(calls'[c].response).body.message = Get(Get(calls[c].params).message).value
                 /\ Get(calls'[c].response).body.response = Get(calls[c].local).response]_vars
    /\ [][\A c \in DOMAIN calls :
             /\ calls[c].pc = "idle" /\ calls'[c].kind = "chat"
             /\ ~ValidConversation(Get(calls'[c].params))
             => /\ Status(calls'[c]) = 400
                /\ conversations' = conversations]_vars

\* one request was answered 201 after its upstream call failed and its
\* conversation is stored; another was rejected by validation
C20_Witness ==
    \E c, e \in ChatCalls :
        /\ Status(calls[c]) = 201
        /\ Status(calls[e]) = 400
        /\ Len(conversations) = 1
        /\ conversations[1].response = ChatApology
        /\ conversations[1] = Get(calls[c].response).body

----------------------------------------------------------------------------
(* Frame of Application.status *)

\* pipeline d takes its last step, the update of its application
TerminalWrite(d) ==
    /\ pipelines[d].pc \in {"app_write", "catch_app_write"}
    /\ pipelines'[d].pc = "done"

(* C18: the status of an existing application changes only in the last     *)
(* step of a pipeline of that application, to 'live' on the success path   *)
(* and to 'failed' in the failure handler; the deploy request, the earlier *)
(* pipeline stages and the chat, analytics, tracking, admin and            *)
(* application requests leave the status of every application as it is.    *)
C18_StatusOnlyByPipeline ==
    [][\A a \in DOMAIN applications \cap DOMAIN applications' :
          applications'[a].status # applications[a].status =>
              \E d \in DOMAIN pipelines :
                  /\ TerminalWrite(d)
                  /\ pipelines[d].application.id = a
                  /\ applications'[a].status =
                         IF pipelines[d].pc = "app_write" THEN "live" ELSE "failed"]_vars

\* a pipeline has run through every stage and made its application 'live'
C18_Witness ==
    \E d \in DOMAIN pipelines :
        /\ pipelines[d].pc = "done"
        /\ ~Threw(pipelines[d])
        /\ AppOf(d).status = "live"
        /\ \E r \in DOMAIN requests : Status(requests[r]) = 201

----------------------------------------------------------------------------
(* Public chat *)

\* the message field of the body is absent, is not text, or is ""
NoMessage(body) ==
    \/ body.message = None
    \/ Get(body.message).type # "string"
    \/ Get(body.message).value = ""

(* C21: the public chat answers 400 at once, without an upstream call,     *)
(* when the message field is missing, is not text or is the empty string;  *)
(* and no step of the public chat handler, whether it rejects, answers or  *)
(* falls back, writes to the store.                                        *)
C21_PublicChatRejectsAndStoresNothing ==
    /\ [][\A c \in DOMAIN calls :
             /\ calls[c].pc = "idle" /\ calls'[c].kind = "public-chat"
             /\ NoMessage(Get(calls'[c].params))
             => /\ calls'[c].pc = "responded"
                /\ Status(calls'[c]) = 400]_vars
    /\ [][\A c \in DOMAIN calls :
             calls'[c] # calls[c] /\ calls'[c].kind = "public-chat" =>
                 /\ Store' = Store
                 /\ sessions' = sessions]_vars

\* an empty message was rejected, and a message was answered with a
\* fallback text after the upstream call failed; nothing is stored
C21_Witness ==
    \E c, e \in PublicCalls :
        /\ Get(calls[c].params).message = Some(Str(""))
        /\ Status(calls[c]) = 400
        /\ Status(calls[e]) = 200
        /\ Get(calls[e].response).body.response \in {PublicNotOk, PublicUnavailable}
        /\ conversations = <<>>

----------------------------------------------------------------------------
(* The analytics window *)

\* the window of a query: N, and 30 when N is absent or not a positive number
Window(query) ==
    LET n == IF IsSome(query) THEN ParseInt(Get(query)) ELSE None
    IN  IF n = None \/ Get(n) <= 0 THEN 30 ELSE Get(n)

\* events of application y of the last n days, newest first
LastDays(y, n) ==
    LET Recent(row) == row.applicationId = y /\ row.visitedAt >= Today - n
    IN  OrderByVisitedAtDesc(SelectSeq(analytics, Recent))

(* C22: the analytics query for application Y with window N days (30 when  *)
(* N is absent or not a positive number) returns exactly the events of Y   *)
(* of the last N days, newest first: no older event of Y and no event of   *)
(* another application.                                                    *)
C22_AnalyticsWindow ==
    \A c \in DOMAIN calls :
        calls[c].kind = "analytics" /\ Status(calls[c]) = 200 =>
            Get(calls[c].response).body =
                LastDays(Get(calls[c].params).id, Window(Get(calls[c].params).days))

----------------------------------------------------------------------------
(* Tracking *)

\* the applications whose subdomain this is
Owning(subdomain) ==
    {a \in DOMAIN applications : applications[a].subdomain = subdomain}

(* C23: a track request for a subdomain of an existing application goes on *)
(* to record, and appends exactly one analytics event whose applicationId  *)
(* is the id of that application, answering with success; for a subdomain  *)
(* of no application it answers 404 and appends nothing (the storage       *)
(* calls resolving).                                                       *)
C23_TrackRecordsOneEvent ==
    /\ [][\A c \in DOMAIN calls :
             /\ calls[c].pc = "idle" /\ calls'[c].kind = "track"
             /\ calls'[c].error = None
             => /\ analytics' = analytics
                /\ IF Owning(Get(calls'[c].params).subdomain) # {}
                   THEN calls'[c].pc = "record"
                   ELSE Status(calls'[c]) = 404]_vars
    /\ [][\A c \in DOMAIN calls :
             /\ calls[c].kind = "track" /\ calls[c].pc = "record"
             /\ calls'[c] # calls[c] /\ calls'[c].error = None
             => /\ Status(calls'[c]) = 200
                /\ Len(analytics') = Len(analytics) + 1
                /\ analytics'[Len(analytics')].applicationId \in
                       Owning(Get(calls[c].params).subdomain)]_vars

----------------------------------------------------------------------------
(* The stored analysis *)

\* the analysis call of pipeline p delivered an analysis
AnalysisSucceededIn(p) == Contains(p.logs, AnalysisOkLine)

(* C24: after the analysis stage the deployment record holds an analysis   *)
(* if and only if the analysis call succeeded: the returned text after a   *)
(* success, and no value at all, not even an empty one, after a failure.   *)
C24_AnalysisSetIffSucceeded ==
    \A d \in DOMAIN deployments :
        /\ IsSome(deployments[d].groqAnalysis) =>
               /\ AnalysisSucceededIn(pipelines[d])
               /\ Get(deployments[d].groqAnalysis).analysis = pipelines[d].analysisResult
        /\ pipelines[d].timer >= 1 /\ AnalysisSucceededIn(pipelines[d]) =>
               IsSome(deployments[d].groqAnalysis)

----------------------------------------------------------------------------
(* The admin flag *)

\* in this step slot c receives a request of this kind from session s
Receives(c, kind, s) ==
    /\ calls[c].pc = "idle"
    /\ calls'[c].kind = kind
    /\ Get(calls'[c].params).session = s

ExactPair(body) == body = [username |-> "admin", password |-> "seskrow2024"]

(* C25: the admin flag of a session becomes true only in a login of that   *)
(* session with exactly the configured pair and is false after its logout; *)
(* a login with any other pair is answered 401 and sets nothing; a request *)
(* of one session leaves the flag of every other session alone; and        *)
(* /admin/users and /admin/analytics answer 401 whenever the flag of the   *)
(* requesting session is not set.                                          *)
C25_AdminFlag ==
    /\ [][\A s \in Sessions :
             ~sessions[s].isAdmin /\ sessions'[s].isAdmin =>
                 \E c \in DOMAIN calls :
                     /\ Receives(c, "admin-login", s)
                     /\ ExactPair(Get(calls'[c].params).body)]_vars
    /\ [][\A s \in Sessions, c \in DOMAIN calls :
             /\ Receives(c, "admin-logout", s) => ~sessions'[s].isAdmin
             /\ Receives(c, "admin-login", s) /\ ~ExactPair(Get(calls'[c].params).body) =>
                    /\ Status(calls'[c]) = 401
                    /\ sessions' = sessions
             /\ \A route \in {"admin-users", "admin-analytics"} :
                    Receives(c, route, s) /\ ~sessions[s].isAdmin => Status(calls'[c]) = 401
             /\ \A route \in AdminRoutes \cup {"admin-login", "admin-logout"} :
                    Receives(c, route, s) =>
                        \A t \in Sessions \ {s} : sessions'[t] = sessions[t]]_vars

\* session s1 has logged in; session s2, whose login was refused, is not
\* admin
C25_Witness ==
    \E c, e \in DOMAIN calls :
        /\ calls[c].kind = "admin-login" /\ Get(calls[c].params).session = "s1"
        /\ Status(calls[c]) = 200
        /\ sessions["s1"].isAdmin
        /\ calls[e].kind = "admin-login" /\ Get(calls[e].params).session = "s2"
        /\ Status(calls[e]) = 401
        /\ ~sessions["s2"].isAdmin

----------------------------------------------------------------------------
(* Day aggregation *)

\* the calendar day a bucket of the chart is labelled with
DayOfBucket(locale, text) ==
    IF locale = "en-US" THEN [year |-> text[3], month |-> text[1], date |-> text[2]]
    ELSE [year |-> text[3], month |-> text[2], date |-> text[1]]

Before(d, e) ==
    \/ d.year < e.year
    \/ d.year = e.year /\ d.month < e.month
    \/ d.year = e.year /\ d.month = e.month /\ d.date < e.date

(* C26: for events on at most 7 distinct calendar days, the day-grouped    *)
(* result has exactly one bucket per distinct day, each bucket counts the  *)
(* events of its day (so the counts sum to the number of events), and the  *)
(* buckets are in chronological order.                                     *)
C26_DayBuckets ==
    client.kind = "chart" /\ client.pc = "rendered" =>
        LET rows == client.analytics
            buckets == Get(client.chartData)
            DayOf(i) == DayOfBucket(client.locale, buckets[i][1])
            days == {CalendarDate(rows[k].visitedAt) : k \in DOMAIN rows}
        IN  /\ {DayOf(i) : i \in DOMAIN buckets} = days
            /\ Len(buckets) = Cardinality(days)
            /\ \A i \in DOMAIN buckets :
                   buckets[i][2] =
                       Cardinality({k \in DOMAIN rows : CalendarDate(rows[k].visitedAt) = DayOf(i)})
            /\ \A i, j \in DOMAIN buckets : i < j => Before(DayOf(i), DayOf(j))

\* the message of a thrown error names the status code
Carries(error, status) == \E i \in DOMAIN error.message : error.message[i] = status

\* C27: chat makes at most one HTTP call and never repeats it; what it
\* settles with follows the response alone: text only for a 2xx response
\* whose choice list is not empty, and then the first choice's text; an error
\* whose message carries the status code for a non-2xx response; an error for
\* a 2xx body that is no JSON; the error 'No response from GroqAI' for a
\* choice list that is empty or absent
C27_ChatOutcome ==
    [][ /\ client.kind = "groq" => client'.fetches <= 1
        /\ client.kind = "groq" /\ client.pc = "settled" => client' = client
        /\ client.kind = "groq" /\ client.pc \in {"json", "error_json"} /\ client'.pc = "settled" =>
              LET resp == Get(client.response)
                  out == Get(client'.outcome)
                  choices == resp.body.choices
              IN  /\ client'.fetches = client.fetches
                  /\ out.kind = "returned" <=>
                        resp.ok /\ resp.body.parses /\ IsSome(choices) /\ Len(Get(choices)) > 0
                  /\ out.kind = "returned" => out.text = Get(choices)[1]
                  /\ ~resp.ok => out.kind = "threw" /\ Carries(Get(out.error), resp.status)
                  /\ resp.ok /\ ~resp.body.parses => out.kind = "threw"
                  /\ resp.ok /\ resp.body.parses /\ (choices = None \/ Len(Get(choices)) = 0) =>
                        /\ out.kind = "threw"
                        /\ Get(out.error).message = <<"No response from GroqAI">>
      ]_vars

\* chat has failed on a 2xx response with an empty choice list, after one call
C27_Witness ==
    /\ client.kind = "groq" /\ client.pc = "settled" /\ client.fetches = 1
    /\ Get(client.outcome).kind = "threw"
    /\ Get(Get(client.outcome).error).message = <<"No response from GroqAI">>
\* the applications a step inserts
Created == DOMAIN applications' \ DOMAIN applications

\* the principal whose create request inserts in this step
Creator == {Get(calls[c].user) : c \in {k \in 1..MaxCalls : calls[k].kind = "create" /\ calls[k].pc = "available"
                                                              /\ calls'[k] # calls[k]}}

\* C28: an application is inserted only by a create request, and its owner is
\* the authenticated principal of that request, whatever the body names
C28_CreatedOwnedByPrincipal ==
    [][\A id \in Created : Creator = {applications'[id].userId}]_vars

\* u1's request whose body names u2 as the owner was answered 201, and the
\* application it created belongs to u1
C28_Witness ==
    \E c \in 1..MaxCalls, id \in DOMAIN applications :
        /\ calls[c].kind = "create" /\ calls[c].user = Some("u1")
        /\ Get(calls[c].params).userId = Some("u2")
        /\ IsSome(calls[c].response) /\ Get(calls[c].response).status = 201
        /\ applications[id].name = "Store" /\ applications[id].userId = "u1"

\* C29: an application just inserted is 'pending' and has neither a
\* deployment URL nor a time of last deployment, whatever the body holds
C29_CreatedPending ==
    [][\A id \in Created :
          /\ applications'[id].status = "pending"
          /\ applications'[id].deploymentUrl = None
          /\ applications'[id].lastDeployedAt = None]_vars
\* the activation of processDeployment for deployment d takes a step
Stepped(d) == d \in DOMAIN pipelines /\ pipelines'[d] # pipelines[d]

\* C30: a step of the pipeline of deployment d of application A leaves every
\* other deployment, every other application and every other activation as
\* they were: it writes at most Deployment d and Application A
C30_PipelineIsolation ==
    [][\A d \in 1..MaxRequests : Stepped(d) =>
          /\ DOMAIN deployments' = DOMAIN deployments
          /\ DOMAIN applications' = DOMAIN applications
          /\ \A e \in DOMAIN deployments : e # d => deployments'[e] = deployments[e]
          /\ \A a \in DOMAIN applications :
                a # pipelines[d].application.id => applications'[a] = applications[a]
          /\ \A e \in DOMAIN pipelines : e # d => pipelines'[e] = pipelines[e]
          /\ deployments[d].applicationId = pipelines[d].application.id
      ]_vars

\* two pipelines of one application have both ended, one with its deployment
\* successful and one with its deployment failed, and the other application
\* was never written
C30_Witness ==
    /\ Len(deployments) = 2
    /\ deployments[1].applicationId = deployments[2].applicationId
    /\ pipelines[1].pc = "done" /\ pipelines[2].pc = "done"
    /\ deployments[1].status = "success" /\ deployments[2].status = "failed"
    /\ applications[2] = NewApplication(2, "u2", "Blog", "blog", "github")
====
